---------------------------- MODULE Spec2Model ----------------------------
(***************************************************************************)
(* mobx-failable: the three-state holder (Failable), the six-state holder  *)
(* (Loadable), the trait bitset of the six states, and the promise         *)
(* acceptance protocol `accept`.                                           *)
(*                                                                         *)
(* One primary holder is modelled, a Failable or a Loadable (chosen at     *)
(* construction), together with the promises it has accepted and the       *)
(* microtask queue that carries their settlement reactions.                *)
(***************************************************************************)
EXTENDS Integers, Naturals, Sequences, FiniteSets, TLC

\* ------------------------------------------------------------------ bounds
\* Number of distinct success values a caller or a promise may supply.
NumValues == 2
\* Number of distinct errors a caller or a promise may supply.
NumErrors == 1
\* Number of promises the holder accepts during a run.
MaxPromises == 2
\* Largest number of holders in a collection handed to Failable.all.
MaxInputs == 3

\* ---------------------------------------------------------------- payloads
\* `data: T | Error | undefined`. Values of T and Errors are tagged so that
\* they are distinct objects.
Undefined == [kind |-> "undefined", id |-> 0]
Val(i) == [kind |-> "value", id |-> i]
Err(i) == [kind |-> "error", id |-> i]
Values == {Val(i) : i \in 1..NumValues}
Errors == {Err(i) : i \in 1..NumErrors}

\* ------------------------------------------------------- bitwise arithmetic
\* JavaScript's |, &, << and >> on the small non-negative integers used by
\* the trait bitset.
RECURSIVE BitOr(_, _)
BitOr(a, b) ==
  IF a = 0 THEN b
  ELSE IF b = 0 THEN a
  ELSE (IF (a % 2 = 1) \/ (b % 2 = 1) THEN 1 ELSE 0) + 2 * BitOr(a \div 2, b \div 2)

RECURSIVE BitAnd(_, _)
BitAnd(a, b) ==
  IF a = 0 \/ b = 0 THEN 0
  ELSE (IF (a % 2 = 1) /\ (b % 2 = 1) THEN 1 ELSE 0) + 2 * BitAnd(a \div 2, b \div 2)

RECURSIVE Shl(_, _)
Shl(a, n) == IF n = 0 THEN a ELSE Shl(2 * a, n - 1)

RECURSIVE Shr(_, _)
Shr(a, n) == IF n = 0 THEN a ELSE Shr(a \div 2, n - 1)

\* ------------------------------------------------------------------ traits
Availability_none == 0
Availability_value == 1
Availability_error == 2

Flight_idle == 0
Flight_busy == 1

fOffset == 0
fMask == 1
aOffset == 1
aMask == 6

\* Future.State (three states) and Loadable.State (six states).
FutureStates == {"pending", "success", "failure"}
LoadableStates == {"empty", "pending", "success", "reloading", "failure", "retrying"}

\* What toState raises for a code that is no state.
TypeError == "TypeError"

\* TraitSet without the shift of the availability: the two traits share
\* the low bits.
TraitSet_unshifted(state) ==
  CASE state = "empty"     -> BitOr(Availability_none, Flight_idle)
    [] state = "pending"   -> BitOr(Availability_none, Flight_busy)
    [] state = "success"   -> BitOr(Availability_value, Flight_idle)
    [] state = "reloading" -> BitOr(Availability_value, Flight_busy)
    [] state = "failure"   -> BitOr(Availability_error, Flight_idle)
    [] state = "retrying"  -> BitOr(Availability_error, Flight_busy)

TraitSet(state) ==
  CASE state = "empty"     -> BitOr(Shl(Availability_none, aOffset), Flight_idle)
    [] state = "pending"   -> BitOr(Shl(Availability_none, aOffset), Flight_busy)
    [] state = "success"   -> BitOr(Shl(Availability_value, aOffset), Flight_idle)
    [] state = "reloading" -> BitOr(Shl(Availability_value, aOffset), Flight_busy)
    [] state = "failure"   -> BitOr(Shl(Availability_error, aOffset), Flight_idle)
    [] state = "retrying"  -> BitOr(Shl(Availability_error, aOffset), Flight_busy)

\* toState with a default case: a code that is no state gives empty.
toState_defaultsToEmpty(traits) ==
  CASE traits = BitOr(Shl(Availability_none, aOffset), Flight_busy)  -> "pending"
    [] traits = BitOr(Shl(Availability_value, aOffset), Flight_idle) -> "success"
    [] traits = BitOr(Shl(Availability_value, aOffset), Flight_busy) -> "reloading"
    [] traits = BitOr(Shl(Availability_error, aOffset), Flight_idle) -> "failure"
    [] traits = BitOr(Shl(Availability_error, aOffset), Flight_busy) -> "retrying"
    [] OTHER -> "empty"

toState(traits) ==
  CASE traits = BitOr(Shl(Availability_none, aOffset), Flight_idle)  -> "empty"
    [] traits = BitOr(Shl(Availability_none, aOffset), Flight_busy)  -> "pending"
    [] traits = BitOr(Shl(Availability_value, aOffset), Flight_idle) -> "success"
    [] traits = BitOr(Shl(Availability_value, aOffset), Flight_busy) -> "reloading"
    [] traits = BitOr(Shl(Availability_error, aOffset), Flight_idle) -> "failure"
    [] traits = BitOr(Shl(Availability_error, aOffset), Flight_busy) -> "retrying"
    [] OTHER -> TypeError

\* A JavaScript argument that is either a State (a string) or a TraitSet (a
\* number), as flightOf and availabilityOf accept it.
Str(s) == [type |-> "string", str |-> s, num |-> 0]
Num(n) == [type |-> "number", str |-> "", num |-> n]

flightOf(input) ==
  LET traits == IF input.type = "string" THEN TraitSet(input.str) ELSE input.num
  IN  Shr(BitAnd(traits, fMask), fOffset)

availabilityOf(input) ==
  LET traits == IF input.type = "string" THEN TraitSet(input.str) ELSE input.num
  IN  Shr(BitAnd(traits, aMask), aOffset)

\* withFlight with the availability lost: the flight alone is encoded.
withFlight_dropsAvailability(state, flight) ==
  toState(BitOr(Shl(Availability_none, aOffset), flight))

\* withFlight that leaves the flight as it is.
withFlight_keepsFlight(state, flight) ==
  LET availability == availabilityOf(Str(state))
      result == BitOr(Shl(availability, aOffset), flightOf(Str(state)))
  IN  toState(result)

withFlight(state, flight) ==
  LET availability == availabilityOf(Str(state))
      result == BitOr(Shl(availability, aOffset), flight)
  IN  toState(result)

\* withAvailability with the flight lost: the availability alone is encoded.
withAvailability_dropsFlight(state, availability) ==
  toState(BitOr(Shl(availability, aOffset), Flight_idle))

\* withAvailability without the shift: the availability is or-ed into the
\* bits of the flight.
withAvailability_unshifted(state, availability) ==
  LET flight == flightOf(Str(state))
      result == BitOr(availability, flight)
  IN  toState(result)

withAvailability(state, availability) ==
  LET flight == flightOf(Str(state))
      result == BitOr(Shl(availability, aOffset), flight)
  IN  toState(result)

\* ----------------------------------------------------------------- holders
\* The object a method runs on: its class, its two observable fields, the
\* lifecycle hooks its methods have invoked during the current call (each
\* with the argument it received and the fields it could read at that
\* moment), and the exception the call raised, if any.
NoThrow == "none"

NewFailable ==
  [kind |-> "Failable", state |-> "pending", data |-> Undefined,
   hooks |-> <<>>, thrown |-> NoThrow]

NewLoadable ==
  [kind |-> "Loadable", state |-> "empty", data |-> Undefined,
   hooks |-> <<>>, thrown |-> NoThrow]

\* An overridable lifecycle hook: the holder's fields are left alone, the
\* invocation is observed.
didBecome(self, name, arg) ==
  [self EXCEPT !.hooks =
     Append(@, [name |-> name, arg |-> arg, state |-> self.state, data |-> self.data])]

\* --- Failable
\* Failable.success that invokes the hook only when the state has changed,
\* as Loadable.loading does.
Failable_success_hookOnChange(self, data) ==
  LET s1 == [self EXCEPT !.state = "success"]
      s2 == [s1 EXCEPT !.data = data]
  IN  IF self.state # "success" THEN didBecome(s2, "didBecomeSuccess", data) ELSE s2

Failable_success(self, data) ==
  LET s1 == [self EXCEPT !.state = "success"]
      s2 == [s1 EXCEPT !.data = data]
  IN  didBecome(s2, "didBecomeSuccess", data)

Failable_failure(self, error) ==
  LET s1 == [self EXCEPT !.state = "failure"]
      s2 == [s1 EXCEPT !.data = error]
  IN  didBecome(s2, "didBecomeFailure", error)

\* Failable.pending with the payload left in place.
Failable_pending_keepsData(self) ==
  didBecome([self EXCEPT !.state = "pending"], "didBecomePending", Undefined)

Failable_pending(self) ==
  LET s1 == [self EXCEPT !.state = "pending"]
      s2 == [s1 EXCEPT !.data = Undefined]
  IN  didBecome(s2, "didBecomePending", Undefined)

Failable_isSuccess(self) == self.state = "success"
Failable_isFailure(self) == self.state = "failure"
Failable_isPending(self) == self.state = "pending"

\* --- Loadable
Loadable_isSuccess(self) == availabilityOf(Str(self.state)) = Availability_value
Loadable_isFailure(self) == availabilityOf(Str(self.state)) = Availability_error
\* isPending as the three-state holder has it: true in the state pending alone.
Loadable_isPending_pendingOnly(self) == self.state = "pending"

Loadable_isPending(self) == availabilityOf(Str(self.state)) = Availability_none
Loadable_isLoading(self) == flightOf(Str(self.state)) = Flight_busy

\* Loadable.success that changes the availability and keeps the flight.
Loadable_success_keepsFlight(self, data) ==
  LET s1 == [self EXCEPT !.state = withAvailability(self.state, Availability_value)]
      s2 == [s1 EXCEPT !.data = data]
  IN  didBecome(s2, "didBecomeSuccess", data)

Loadable_success(self, data) ==
  LET s1 == [self EXCEPT !.state = "success"]
      s2 == [s1 EXCEPT !.data = data]
  IN  didBecome(s2, "didBecomeSuccess", data)

\* Loadable.failure with the payload left in place.
Loadable_failure_keepsData(self, error) ==
  didBecome([self EXCEPT !.state = "failure"], "didBecomeFailure", error)

Loadable_failure(self, error) ==
  LET s1 == [self EXCEPT !.state = "failure"]
      s2 == [s1 EXCEPT !.data = error]
  IN  didBecome(s2, "didBecomeFailure", error)

\* Loadable.loading without the comparison of old and new state.
Loadable_loading_alwaysFires(self) ==
  LET newState == withFlight(self.state, Flight_busy)
  IN  didBecome([self EXCEPT !.state = newState], "didBecomeLoading", Undefined)

\* Loadable.loading that enters pending whatever the availability.
Loadable_loading_entersPending(self) ==
  LET oldState == self.state
      newState == "pending"
  IN  IF oldState # newState
        THEN didBecome([self EXCEPT !.state = newState], "didBecomeLoading", Undefined)
        ELSE self

Loadable_loading(self) ==
  LET oldState == self.state
      newState == withFlight(oldState, Flight_busy)
  IN  IF newState = TypeError
        THEN [self EXCEPT !.thrown = TypeError]
        ELSE IF oldState # newState
          THEN didBecome([self EXCEPT !.state = newState], "didBecomeLoading", Undefined)
          ELSE self

\* Loadable.pending with the standard Future behaviour: the payload is cleared.
Loadable_pending_clearsData(self) ==
  LET s1 == [self EXCEPT !.state = "pending"]
      s2 == [s1 EXCEPT !.data = Undefined]
  IN  didBecome(s2, "didBecomeLoading", Undefined)

Loadable_pending(self) == Loadable_loading(self)

\* --- the Future interface, dispatched on the receiver's class
Future_success(self, data) ==
  IF self.kind = "Failable" THEN Failable_success(self, data)
                            ELSE Loadable_success(self, data)

Future_failure(self, error) ==
  IF self.kind = "Failable" THEN Failable_failure(self, error)
                            ELSE Loadable_failure(self, error)

Future_pending(self) ==
  IF self.kind = "Failable" THEN Failable_pending(self)
                            ELSE Loadable_pending(self)

\* ---------------------------------------------------------------- promises
\* A promise handed to accept is unsettled, fulfilled with a value or
\* rejected with a reason. Of an accepted promise the model keeps its status
\* and `delivered`, the number of settlement reactions it has run on the
\* holder; the value or reason travels in the reaction job.
Unsettled == [status |-> "unsettled", outcome |-> Undefined]
Fulfilled(v) == [status |-> "fulfilled", outcome |-> v]
Rejected(e) == [status |-> "rejected", outcome |-> e]

Settled == {Fulfilled(v) : v \in Values} \cup {Rejected(e) : e \in Errors}
PromiseInputs == {Unsettled} \cup Settled

\* `.then(f.success, f.failure)` on a promise: the reaction of a settled
\* promise is queued as a microtask, with the value or reason it will pass;
\* that of an unsettled promise waits for the settlement.
\* The reaction registered twice, as by two calls of `.then`.
then_twice(queue, id, promise) ==
  IF promise.status # "unsettled"
    THEN LET job == [id |-> id, status |-> promise.status, outcome |-> promise.outcome]
         IN  Append(Append(queue, job), job)
    ELSE queue

then(queue, id, promise) ==
  IF promise.status # "unsettled"
    THEN Append(queue, [id |-> id, status |-> promise.status, outcome |-> promise.outcome])
    ELSE queue

\* accept that runs the reaction of an already settled promise before it
\* returns.
accept_settlesSynchronously(self, promise) ==
  LET s1 == Future_pending(self)
  IN  IF promise.status = "fulfilled" THEN Future_success(s1, promise.outcome)
      ELSE IF promise.status = "rejected" THEN Future_failure(s1, promise.outcome)
      ELSE s1

\* accept(f, promise): the holder as it is when accept returns.
accept(self, promise) == Future_pending(self)

\* The reaction with its two callbacks in the wrong order:
\* `.then(f.failure, f.success)`.
reaction_swapsCallbacks(self, job) ==
  IF job.status = "fulfilled"
    THEN Future_failure(self, job.outcome)
    ELSE Future_success(self, job.outcome)

\* The reaction `.then` registered, run as a microtask: onFulfilled is
\* f.success, onRejected is f.failure.
reaction(self, job) ==
  IF job.status = "fulfilled"
    THEN Future_success(self, job.outcome)
    ELSE Future_failure(self, job.outcome)

\* --------------------------------------------------------------- callbacks
\* A callback handed to derive or match is modelled by what it does with its
\* arguments: it returns a result computed from them, returns its first
\* argument, throws a value computed from them, or throws for some arguments
\* and returns for the others. NoCallback is a property left out of the
\* options object.
NoCallback == "absent"
DeriveBehaviours == {"returns", "throws", "partial"}

\* A callback with a state of its own, whose invocations return and throw
\* in turn: it is named by what its next invocations will do.
AlternatingBehaviours == {"returnsThenThrows", "throwsThenReturns"}

\* The callback as it is once it has been invoked.
Invoked(f) ==
  CASE f = "returnsThenThrows" -> "throwsThenReturns"
    [] f = "throwsThenReturns" -> "returnsThenThrows"
    [] OTHER -> f

\* A boolean passed as a callback argument.
Bool(b) == [kind |-> "boolean", id |-> IF b THEN 1 ELSE 0]

\* The value a callback computes from its arguments, and the value it throws.
Returned(name, args) == [kind |-> "returned", by |-> name, args |-> args]
Thrown(name, args) == [kind |-> "thrown", by |-> name, args |-> args]

Throws(f, args) ==
  \/ f = "throws"
  \/ f = "partial" /\ args # <<>> /\ args[1].id = 1
  \/ f = "throwsThenReturns"

\* f(...args): the invocation, whether it threw, the value that came out, and
\* the callback as the invocation left it.
Invoke(f, name, args) ==
  [call |-> [name |-> name, args |-> args],
   threw |-> Throws(f, args),
   after |-> Invoked(f),
   value |-> IF Throws(f, args) THEN Thrown(name, args)
             ELSE IF f = "identity" THEN (IF args = <<>> THEN Undefined ELSE args[1])
             ELSE Returned(name, args)]

\* ------------------------------------------------------------------- match
\* `return f(...)` as a statement of a function body: the callbacks the
\* function has invoked, whether the last one threw, and the value the
\* function returns or the exception it lets propagate.
Return(invocation) ==
  [calls |-> <<invocation.call>>, threw |-> invocation.threw, value |-> invocation.value]

\* The same statement without `return`, followed by the rest of the body:
\* unless the callback threw, control falls through to what comes next.
FallThrough(invocation, rest) ==
  IF invocation.threw THEN Return(invocation)
  ELSE [rest EXCEPT !.calls = <<invocation.call>> \o @]

\* match whose cases do not return: a switch falls through to the cases
\* below the one it selected.
match_fallsThrough(state, data, options) ==
  LET pending == Return(Invoke(options.pending, "pending", <<>>))
      failure == FallThrough(Invoke(options.failure, "failure", <<data>>), pending)
      success == FallThrough(Invoke(options.success, "success", <<data>>), failure)
  IN  CASE state = "success" -> success
        [] state = "failure" -> failure
        [] state = "pending" -> pending

\* match(state, data, options) of the three-state holders: a switch on the
\* state with a return in every case.
match(state, data, options) ==
  CASE state = "success" -> Return(Invoke(options.success, "success", <<data>>))
    [] state = "failure" -> Return(Invoke(options.failure, "failure", <<data>>))
    [] state = "pending" -> Return(Invoke(options.pending, "pending", <<>>))

\* failable.match(options)
Failable_match(self, options) == match(self.state, self.data, options)

\* A function body that ends without a return statement: nothing was
\* invoked and the caller gets undefined.
ReturnUndefined == [calls |-> <<>>, threw |-> FALSE, value |-> Undefined]

\* The six-state match with the case labels of the three-state one: the
\* states empty, reloading and retrying select no case.
loadableMatch_threeCases(state, data, isLoading, options) ==
  CASE state = "success" ->
         Return(Invoke(options.success, "success", <<data, Bool(isLoading)>>))
    [] state = "failure" ->
         Return(Invoke(options.failure, "failure", <<data, Bool(isLoading)>>))
    [] state = "pending" ->
         Return(Invoke(options.pending, "pending", <<Bool(isLoading)>>))
    [] OTHER -> ReturnUndefined

\* match(state, data, isLoading, options) of the six-state holder: a switch
\* on the state with two case labels for every return.
loadableMatch(state, data, isLoading, options) ==
  CASE state \in {"success", "reloading"} ->
         Return(Invoke(options.success, "success", <<data, Bool(isLoading)>>))
    [] state \in {"failure", "retrying"} ->
         Return(Invoke(options.failure, "failure", <<data, Bool(isLoading)>>))
    [] state \in {"empty", "pending"} ->
         Return(Invoke(options.pending, "pending", <<Bool(isLoading)>>))

\* loadable.match(options)
Loadable_match(self, options) ==
  loadableMatch(self.state, self.data, Loadable_isLoading(self), options)

\* f.match(options) on a ReadonlyFuture, dispatched on the receiver's class
Future_match(self, options) ==
  IF self.kind = "Failable" THEN Failable_match(self, options)
                            ELSE Loadable_match(self, options)

\* The options objects handed to match: three callbacks that compute a result
\* from their arguments, that return their first argument, or that throw.
MatchOptions ==
  {[success |-> f, failure |-> f, pending |-> f] : f \in {"returns", "identity", "throws"}}

\* An options object of three function expressions written at the call site;
\* what they do is written where match selects one of them.
Closures == [success |-> "closure", failure |-> "closure", pending |-> "closure"]

\* --------------------------------------------------------- derived holders
\* A derived holder: its class, the options it was constructed with (a
\* callback with a state of its own is kept as its invocations left it), its
\* two observable fields, and what its most recent recomputations did: `runs`
\* counts the runs of transform and `calls` lists the callbacks of the options
\* they invoked, during the construction or the source call that came last.
\* The options objects handed to derive: callbacks for one, two or all three
\* of the cases (at least one is required), all of one behaviour.
DeriveOptions ==
  {[name \in {"success", "failure", "pending"} |->
      IF name \in cases THEN f ELSE NoCallback] :
     cases \in (SUBSET {"success", "failure", "pending"}) \ {{}},
     f \in DeriveBehaviours}

NoDerived ==
  [kind |-> "none", options |-> [success |-> NoCallback, failure |-> NoCallback,
                                 pending |-> NoCallback],
   state |-> "", data |-> Undefined, runs |-> 0, calls |-> <<>>]

NewDerivedFailable(options) ==
  [kind |-> "DerivedFailable", options |-> options,
   state |-> "pending", data |-> Undefined, runs |-> 0, calls |-> <<>>]

NewDerivedLoadable(options) ==
  [kind |-> "DerivedLoadable", options |-> options,
   state |-> "pending", data |-> Undefined, runs |-> 0, calls |-> <<>>]

\* --- DerivedFailable
DerivedFailable_transitionTo(self, state, data) ==
  LET s1 == [self EXCEPT !.state = state]
  IN  [s1 EXCEPT !.data = data]

\* transformWith that lets a failure stand: once the holder is a failure, a
\* callback that returns does not make it a success.
DerivedFailable_transformWith_keepsFailure(self, name, f, v) ==
  LET result == Invoke(f, name, <<v>>)
      s1 == [self EXCEPT !.calls = Append(@, result.call), !.options[name] = result.after]
  IN  IF ~result.threw /\ self.state # "failure"
        THEN DerivedFailable_transitionTo(s1, "success", result.value)
        ELSE DerivedFailable_transitionTo(s1, "failure", result.value)

\* transformWith without the catch clause: a throwing callback leaves the
\* holder as it was.
DerivedFailable_transformWith_noCatch(self, name, f, v) ==
  LET result == Invoke(f, name, <<v>>)
      s1 == [self EXCEPT !.calls = Append(@, result.call), !.options[name] = result.after]
  IN  IF ~result.threw
        THEN DerivedFailable_transitionTo(s1, "success", result.value)
        ELSE s1

DerivedFailable_transformWith(self, name, f, v) ==
  LET result == Invoke(f, name, <<v>>)
      s1 == [self EXCEPT !.calls = Append(@, result.call), !.options[name] = result.after]
  IN  IF ~result.threw
        THEN DerivedFailable_transitionTo(s1, "success", result.value)
        ELSE DerivedFailable_transitionTo(s1, "failure", result.value)

\* transform that passes a pending source through whether or not the
\* options have a pending callback.
DerivedFailable_transform_mirrorsPending(self, underlying) ==
  LET s0 == [self EXCEPT !.runs = @ + 1]
      success == self.options.success
      failure == self.options.failure
      selected == match(underlying.state, underlying.data, Closures).calls[1]
  IN  CASE selected.name = "success" ->
             LET value == selected.args[1]
             IN  IF success # NoCallback
                   THEN DerivedFailable_transformWith(s0, "success", success, value)
                   ELSE DerivedFailable_transitionTo(s0, "success", value)
        [] selected.name = "failure" ->
             LET error == selected.args[1]
             IN  IF failure # NoCallback
                   THEN DerivedFailable_transformWith(s0, "failure", failure, error)
                   ELSE DerivedFailable_transitionTo(s0, "failure", error)
        [] selected.name = "pending" ->
             DerivedFailable_transitionTo(s0, "pending", Undefined)

DerivedFailable_transform(self, underlying) ==
  LET s0 == [self EXCEPT !.runs = @ + 1]
      success == self.options.success
      failure == self.options.failure
      pending == self.options.pending
      selected == match(underlying.state, underlying.data, Closures).calls[1]
  IN  CASE selected.name = "success" ->
             LET value == selected.args[1]
             IN  IF success # NoCallback
                   THEN DerivedFailable_transformWith(s0, "success", success, value)
                   ELSE DerivedFailable_transitionTo(s0, "success", value)
        [] selected.name = "failure" ->
             LET error == selected.args[1]
             IN  IF failure # NoCallback
                   THEN DerivedFailable_transformWith(s0, "failure", failure, error)
                   ELSE DerivedFailable_transitionTo(s0, "failure", error)
        [] selected.name = "pending" ->
             IF pending # NoCallback
               THEN DerivedFailable_transformWith(s0, "pending", pending, Undefined)
               ELSE DerivedFailable_transitionTo(s0, "pending", Undefined)

\* --- DerivedLoadable
DerivedLoadable_transitionTo(self, state, data) ==
  LET s1 == [self EXCEPT !.state = state]
  IN  [s1 EXCEPT !.data = data]

\* mirror that copies availability and payload but not the flight.
DerivedLoadable_mirror_idle(self, underlying) ==
  DerivedLoadable_transitionTo(
    self, withFlight(underlying.state, Flight_idle), underlying.data)

DerivedLoadable_mirror(self, underlying) ==
  DerivedLoadable_transitionTo(self, underlying.state, underlying.data)

\* transformWith that takes the loading flag from the derived holder's own
\* state instead of the source's.
DerivedLoadable_transformWith_ownFlight(self, underlying, name, f, v, state) ==
  IF f = NoCallback
    THEN DerivedLoadable_mirror(self, underlying)
    ELSE LET isLoading == flightOf(Str(self.state)) = Flight_busy
             result == Invoke(f, name, <<v, Bool(isLoading)>>)
             s1 == [self EXCEPT !.calls = Append(@, result.call), !.options[name] = result.after]
         IN  IF ~result.threw
               THEN DerivedLoadable_transitionTo(
                      s1, withAvailability(state, Availability_value), result.value)
               ELSE DerivedLoadable_transitionTo(
                      s1, withAvailability(state, Availability_error), result.value)

DerivedLoadable_transformWith(self, underlying, name, f, v, state) ==
  IF f = NoCallback
    THEN DerivedLoadable_mirror(self, underlying)
    ELSE LET isLoading == flightOf(Str(state)) = Flight_busy
             result == Invoke(f, name, <<v, Bool(isLoading)>>)
             s1 == [self EXCEPT !.calls = Append(@, result.call), !.options[name] = result.after]
         IN  IF ~result.threw
               THEN DerivedLoadable_transitionTo(
                      s1, withAvailability(state, Availability_value), result.value)
               ELSE DerivedLoadable_transitionTo(
                      s1, withAvailability(state, Availability_error), result.value)

DerivedLoadable_transform(self, underlying) ==
  LET s0 == [self EXCEPT !.runs = @ + 1]
      success == self.options.success
      failure == self.options.failure
      pending == self.options.pending
      state == underlying.state
      data == underlying.data
  IN  CASE availabilityOf(Str(state)) = Availability_value ->
             DerivedLoadable_transformWith(s0, underlying, "success", success, data, state)
        [] availabilityOf(Str(state)) = Availability_error ->
             DerivedLoadable_transformWith(s0, underlying, "failure", failure, data, state)
        [] availabilityOf(Str(state)) = Availability_none ->
             IF pending = NoCallback
               THEN DerivedLoadable_mirror(s0, underlying)
               ELSE LET isLoading == flightOf(Str(state)) = Flight_busy
                        result == Invoke(pending, "pending", <<Bool(isLoading)>>)
                        s1 == [s0 EXCEPT !.calls = Append(@, result.call), !.options.pending = result.after]
                    IN  IF ~result.threw
                          THEN DerivedLoadable_transitionTo(
                                 s1, withAvailability(state, Availability_value), result.value)
                          ELSE DerivedLoadable_transitionTo(
                                 s1, withAvailability(state, Availability_error), result.value)

\* --- both classes
transform(self, underlying) ==
  IF self.kind = "DerivedFailable" THEN DerivedFailable_transform(self, underlying)
                                   ELSE DerivedLoadable_transform(self, underlying)

\* A constructor that registers the autorun and leaves it at that.
derive_autorunOnly(future, options) ==
  LET new == IF future.kind \in {"Failable", "DerivedFailable"}
               THEN NewDerivedFailable(options)
               ELSE NewDerivedLoadable(options)
  IN  transform(new, future)

\* derive(future, options): the constructor registers transform as an autorun,
\* which runs it once at once, and then calls transform itself.
derive(future, options) ==
  LET new == IF future.kind \in {"Failable", "DerivedFailable"}
               THEN NewDerivedFailable(options)
               ELSE NewDerivedLoadable(options)
      registered == transform(new, future)
  IN  transform(registered, future)

\* The autorun after a call on the source has returned: transform runs again
\* when an observable field it read, the source's state or data, was assigned
\* a different value.
\* An autorun that tracks the source's state only, not its data.
transformation_tracksStateOnly(self, before, after) ==
  LET s0 == [self EXCEPT !.runs = 0, !.calls = <<>>]
  IN  IF self.kind = "none" THEN self
      ELSE IF after.state # before.state
        THEN transform(s0, after)
        ELSE s0

\* The source between the two assignments of a transition: `state` is
\* already assigned, `data` not yet.
Torn(before, after) == [after EXCEPT !.data = before.data]

\* An autorun that is not held back until the action has ended: it runs
\* after each assignment that changes a field it read.
transformation_afterEachAssignment(self, before, after) ==
  LET s0 == [self EXCEPT !.runs = 0, !.calls = <<>>]
      between == Torn(before, after)
      s1 == IF between.state # before.state THEN transform(s0, between) ELSE s0
  IN  IF self.kind = "none" THEN self
      ELSE IF after.data # between.data
        THEN transform(s1, after)
        ELSE s1

transformation(self, before, after) ==
  LET s0 == [self EXCEPT !.runs = 0, !.calls = <<>>]
  IN  IF self.kind = "none" THEN self
      ELSE IF after.state # before.state \/ after.data # before.data
        THEN transform(s0, after)
        ELSE s0

\* A holder derived from a derived holder whose reaction is lost: the
\* changes the first holder's autorun makes start no further autorun.
transformation_chained_notPropagated(self, underlying, before, after) ==
  [self EXCEPT !.runs = 0, !.calls = <<>>]

\* The autoruns of a chain after a call on the primary source has returned:
\* the autorun of the holder derived from the source runs, and what it
\* assigns makes the autorun of the holder derived from that one run.
transformation_chained(self, underlying, before, after) ==
  transformation(self, underlying, transformation(underlying, before, after))

\* The two observable fields of a holder, as a reader finds them.
Shown(holder) == [state |-> holder.state, data |-> holder.data]

\* An observer whose autorun ran as soon as the source's fields were
\* assigned, before the source's lifecycle hook.
atHook_recomputed(observer, recomputed) == Shown(recomputed)

\* An observer of the source as the source's lifecycle hook finds it: the
\* hook is called inside the action, and the observers' autoruns are held
\* back until the action has ended.
atHook(observer, recomputed) == Shown(observer)

\* -------------------------------------------------------------- extensions
\* Lazy<U>: a value, or a function that produces it. Lazy.force calls the
\* function and returns any other value as it is.
Thunk(v) == [kind |-> "thunk", value |-> v]
Lazy_force(lazy) == IF lazy.kind = "thunk" THEN lazy.value ELSE lazy

\* What successOr and failureOr give: the value they return and the Lazy
\* values they called Lazy.force on.
Payload(v) == [value |-> v, forced |-> <<>>]
Forced(lazy) == [value |-> Lazy_force(lazy), forced |-> <<lazy>>]

\* successOr that evaluates the default before it looks at the holder.
successOr_eager(f, defaultValue) ==
  LET default == Forced(defaultValue)
      selected == Future_match(f, Closures).calls[1]
  IN  CASE selected.name = "success" -> [default EXCEPT !.value = selected.args[1]]
        [] selected.name = "failure" -> default
        [] selected.name = "pending" -> default

successOr(f, defaultValue) ==
  LET selected == Future_match(f, Closures).calls[1]
  IN  CASE selected.name = "success" -> Payload(selected.args[1])
        [] selected.name = "failure" -> Forced(defaultValue)
        [] selected.name = "pending" -> Forced(defaultValue)

\* failureOr with the callbacks of success and failure exchanged.
failureOr_ofSuccess(f, defaultValue) ==
  LET selected == Future_match(f, Closures).calls[1]
  IN  CASE selected.name = "success" -> Payload(selected.args[1])
        [] selected.name = "failure" -> Forced(defaultValue)
        [] selected.name = "pending" -> Forced(defaultValue)

failureOr(f, defaultValue) ==
  LET selected == Future_match(f, Closures).calls[1]
  IN  CASE selected.name = "success" -> Forced(defaultValue)
        [] selected.name = "failure" -> Payload(selected.args[1])
        [] selected.name = "pending" -> Forced(defaultValue)

\* ------------------------------------------------------------ Failable.all
\* The sentinel object `never`.
Never == [kind |-> "never", id |-> 0]

\* The errors the inputs of a collection fail with: one more than a single
\* holder is given, so that two inputs can fail with different errors.
InputErrors == {Err(i) : i \in 1..(NumErrors + 1)}

\* A Failable as it can be when it is put into a collection.
InputHolders ==
  {NewFailable}
    \cup {[Failable_success(NewFailable, v) EXCEPT !.hooks = <<>>] : v \in Values}
    \cup {[Failable_failure(NewFailable, e) EXCEPT !.hooks = <<>>] : e \in InputErrors}

\* A collection handed to Failable.all: an array or a mapping, given by its
\* own properties in enumeration order. An array of n holders has the keys
\* "0" .. "n-1", a mapping the keys "k1" .. "kn".
ArrayOf(holders) ==
  [isArray |-> TRUE,
   props |-> [i \in 1..Len(holders) |-> [key |-> ToString(i - 1), value |-> holders[i]]]]

MappingOf(holders) ==
  [isArray |-> FALSE,
   props |-> [i \in 1..Len(holders) |-> [key |-> "k" \o ToString(i), value |-> holders[i]]]]

Collections ==
  UNION {{ArrayOf(holders), MappingOf(holders)} :
           holders \in UNION {[1..n -> InputHolders] : n \in 0..MaxInputs}}

Array_isArray(values) == values.isArray
Object_entries(values) == values.props

\* The collected value: `[]` or `{}` filled key by key. A JavaScript array is
\* given by its items, a plain object by its properties in insertion order.
JsArray(items) == [kind |-> "Array", items |-> items]
JsObject(props) == [kind |-> "Object", items |-> props]

\* obj[key], undefined when the object has no such property.
Get(props, key) ==
  IF \E k \in 1..Len(props) : props[k].key = key
    THEN props[CHOOSE k \in 1..Len(props) : props[k].key = key].value
    ELSE Undefined

\* Array.from that counts the items from one.
Array_from_fromOne(props, length) ==
  JsArray([i \in 1..length |-> Get(props, ToString(i))])

\* Array.from({...vals, length}): item i is the property named i.
Array_from(props, length) ==
  JsArray([i \in 1..length |-> Get(props, ToString(i - 1))])

\* An observable or computed property of a holder, as a reaction reads it.
Observe(holder, field) ==
  CASE field = "isFailure" -> Bool(Failable_isFailure(holder))
    [] field = "isPending" -> Bool(Failable_isPending(holder))
    [] field = "state"     -> [kind |-> "state", id |-> holder.state]
    [] field = "data"      -> holder.data

\* Array.prototype.find, given for each entry whether it satisfies the
\* predicate: the position of the first entry that does, 0 (undefined) when
\* there is none, and how many entries were visited. find_last returns the
\* last such entry instead.
find_last(hits) ==
  LET S == {i \in 1..Len(hits) : hits[i]}
  IN  IF S = {} THEN [index |-> 0, visited |-> Len(hits)]
      ELSE LET i == CHOOSE i \in S : \A j \in S : i >= j
           IN  [index |-> i, visited |-> i]

find(hits) ==
  LET S == {i \in 1..Len(hits) : hits[i]}
  IN  IF S = {} THEN [index |-> 0, visited |-> Len(hits)]
      ELSE LET i == CHOOSE i \in S : \A j \in S : i <= j
           IN  [index |-> i, visited |-> i]

\* The properties an autorun has read: those of the inputs at the given
\* positions, and the same limited to the first input.
Reads_firstInputOnly(indices, fields) ==
  {[index |-> i, field |-> f] : i \in indices \cap {1}, f \in fields}

Reads(indices, fields) == {[index |-> i, field |-> f] : i \in indices, f \in fields}

\* The body of the autorun of Failable.all, run on the entries as they are:
\* the call it makes on `result`, the properties of the inputs it read, and
\* the Error it threw, if any.
all_autorun(isArray, entries, result) ==
  LET n == Len(entries)
      failureEntry == find([i \in 1..n |-> Failable_isFailure(entries[i].value)])
      pendingEntry == find([i \in 1..n |-> Failable_isPending(entries[i].value)])
      r0 == [result EXCEPT !.hooks = <<>>]
  IN  IF failureEntry.index # 0
        THEN LET failure == entries[failureEntry.index].value
                 error == failureOr(failure, Never).value
                 read == Reads(1..failureEntry.visited, {"isFailure"})
                           \cup Reads({failureEntry.index}, {"state", "data"})
             IN  IF error = Never
                   THEN [result |-> r0, tracked |-> read,
                         thrown |-> "Future should have been a failure"]
                   ELSE [result |-> Failable_failure(r0, error), tracked |-> read,
                         thrown |-> NoThrow]
      ELSE IF pendingEntry.index # 0
        THEN [result |-> Failable_pending(r0),
              tracked |-> Reads(1..n, {"isFailure"})
                            \cup Reads(1..pendingEntry.visited, {"isPending"}),
              thrown |-> NoThrow]
      ELSE LET vals == [i \in 1..n |->
                          [key |-> entries[i].key,
                           value |-> successOr(entries[i].value, Never).value]]
               read == Reads(1..n, {"isFailure", "isPending", "state", "data"})
           IN  IF \E i \in 1..n : vals[i].value = Never
                 THEN [result |-> r0, tracked |-> read,
                       thrown |-> "Futures should all be successfull"]
                 ELSE IF isArray
                   THEN [result |-> Failable_success(r0, Array_from(vals, n)),
                         tracked |-> read, thrown |-> NoThrow]
                   ELSE [result |-> Failable_success(r0, JsObject(vals)),
                         tracked |-> read, thrown |-> NoThrow]

\* What Failable.all has built: the collection, `result`, the properties
\* the autorun read in its last run (it runs again when one of them changes),
\* the number of runs of the autorun during the most recent call, the Error
\* the last run threw, and the input the most recent call was made on.
NoAggregate ==
  [created |-> FALSE, values |-> ArrayOf(<<>>), result |-> NewFailable,
   tracked |-> {}, runs |-> 0, thrown |-> NoThrow, last |-> 0]

\* Failable.all whose empty result is `{}` for an array too.
all_emptyObject(values) ==
  LET result == NewFailable
      isArray == Array_isArray(values)
      entries == Object_entries(values)
      new == [created |-> TRUE, values |-> values, result |-> result,
              tracked |-> {}, runs |-> 0, thrown |-> NoThrow, last |-> 0]
  IN  IF Len(entries) = 0
        THEN [new EXCEPT !.result = Failable_success(result, JsObject(<<>>))]
        ELSE LET run == all_autorun(isArray, entries, result)
             IN  [new EXCEPT !.result = run.result, !.tracked = run.tracked,
                             !.thrown = run.thrown, !.runs = 1]

\* Failable.all(values)
all(values) ==
  LET result == NewFailable
      isArray == Array_isArray(values)
      entries == Object_entries(values)
      new == [created |-> TRUE, values |-> values, result |-> result,
              tracked |-> {}, runs |-> 0, thrown |-> NoThrow, last |-> 0]
  IN  IF Len(entries) = 0
        THEN [new EXCEPT !.result =
                Failable_success(result, IF isArray THEN JsArray(<<>>) ELSE JsObject(<<>>))]
        ELSE LET run == all_autorun(isArray, entries, result)
             IN  [new EXCEPT !.result = run.result, !.tracked = run.tracked,
                             !.thrown = run.thrown, !.runs = 1]

\* The autorun after a call on input i has returned: the body runs again when
\* a property it read in its last run has changed.
all_reaction(self, i, after) ==
  LET before == self.values.props[i].value
      changed == \E t \in self.tracked :
                   t.index = i /\ Observe(after, t.field) # Observe(before, t.field)
      values == [self.values EXCEPT !.props[i].value = [after EXCEPT !.hooks = <<>>]]
      s0 == [self EXCEPT !.values = values, !.runs = 0, !.last = i,
                         !.result.hooks = <<>>]
      entries == Object_entries(values)
  IN  IF changed
        THEN LET run == all_autorun(Array_isArray(values), entries, s0.result)
             IN  [s0 EXCEPT !.result = run.result, !.tracked = run.tracked,
                            !.thrown = run.thrown, !.runs = 1]
        ELSE s0

\* ------------------------------------------------------------------- state
VARIABLES
  kind,         \* the holder's class: "Failable" or "Loadable"
  state,        \* the holder's observable field `state`
  data,         \* the holder's observable field `data`
  hooks,        \* the lifecycle hooks the most recent call invoked, in order
  lastOp,       \* the most recent call, its arguments and the fields before it
  lastSuccess,  \* the argument of the most recent success transition
  lastFailure,  \* the argument of the most recent failure transition
  promises,     \* the promises accepted so far, in acceptance order
  jobs,         \* the microtask queue: the reaction jobs that are due
  derived,      \* the holder derived from the primary holder, if any
  aggregate,    \* what Failable.all built over a collection of Failables, if called
  returned,     \* what the most recent call that assigns nothing gave its caller
  chained,      \* the holder derived from the derived holder, if any
  sibling,      \* a second holder derived from the primary holder, if any
  seen          \* what the observers showed when the most recent call's hooks ran

vars == <<kind, state, data, hooks, lastOp, lastSuccess, lastFailure, promises, jobs,
          derived, aggregate, returned, chained, sibling, seen>>

this == [kind |-> kind, state |-> state, data |-> data, hooks |-> <<>>, thrown |-> NoThrow]

Op(name, arg, id, result) ==
  [op |-> name, arg |-> arg, id |-> id, preState |-> state, preData |-> data,
   thrown |-> result.thrown]

\* A call that assigns nothing, as its caller sees it: the function, its
\* arguments, the callbacks or thunks it invoked, whether it threw, and the
\* value it returned or threw. NoReturn: the most recent call was none such.
NoReturn == [op |-> "none", args |-> <<>>, calls |-> <<>>, threw |-> FALSE, value |-> Undefined]

\* The aggregate is one over the primary holder alone.
Aggregated ==
  /\ aggregate.created
  /\ Len(aggregate.values.props) = 1
  /\ aggregate.values.props[1].value = this

\* The call returned `result` as the receiver.
Returns(name, arg, id, result) ==
  /\ state' = result.state
  /\ data' = result.data
  /\ hooks' = result.hooks
  /\ lastOp' = Op(name, arg, id, result)
  /\ kind' = kind
  /\ derived' = transformation(derived, this, result)
  /\ aggregate' = IF Aggregated THEN all_reaction(aggregate, 1, result) ELSE aggregate
  /\ returned' = NoReturn
  /\ chained' = transformation_chained(chained, derived, this, result)
  /\ sibling' = transformation(sibling, this, result)
  /\ seen' = [derived |-> atHook(derived, derived'),
              aggregate |-> atHook(aggregate.result, aggregate'.result)]

Init ==
  /\ kind \in {"Failable", "Loadable"}
  /\ LET new == IF kind = "Failable" THEN NewFailable ELSE NewLoadable
     IN  /\ state = new.state
         /\ data = new.data
         /\ hooks = new.hooks
  /\ lastOp = [op |-> "new", arg |-> Undefined, id |-> 0, preState |-> "",
               preData |-> Undefined, thrown |-> NoThrow]
  /\ lastSuccess = Undefined
  /\ lastFailure = Undefined
  /\ promises = <<>>
  /\ jobs = <<>>
  /\ derived = NoDerived
  /\ aggregate = NoAggregate
  /\ returned = NoReturn
  /\ chained = NoDerived
  /\ sibling = NoDerived
  /\ seen = [derived |-> Shown(NoDerived), aggregate |-> Shown(NoAggregate.result)]

\* success that drops the reactions that are due, as if a direct call
\* cancelled the promises accepted before it.
Success_cancelsAccepted(v) ==
  /\ Returns("success", v, 0, Future_success(this, v))
  /\ lastSuccess' = v
  /\ jobs' = <<>>
  /\ UNCHANGED <<lastFailure, promises>>

\* holder.success(v)
Success(v) ==
  /\ Returns("success", v, 0, Future_success(this, v))
  /\ lastSuccess' = v
  /\ UNCHANGED <<lastFailure, promises, jobs>>

\* holder.failure(e)
Failure(e) ==
  /\ Returns("failure", e, 0, Future_failure(this, e))
  /\ lastFailure' = e
  /\ UNCHANGED <<lastSuccess, promises, jobs>>

\* holder.pending()
Pending ==
  /\ Returns("pending", Undefined, 0, Future_pending(this))
  /\ UNCHANGED <<lastSuccess, lastFailure, promises, jobs>>

\* loadable.loading()
Loading ==
  /\ kind = "Loadable"
  /\ Returns("loading", Undefined, 0, Loadable_loading(this))
  /\ UNCHANGED <<lastSuccess, lastFailure, promises, jobs>>

\* holder.accept(promise)
Accept(promise) ==
  /\ Len(promises) < MaxPromises
  /\ LET id == Len(promises) + 1
         result == accept(this, promise)
     IN  /\ Returns("accept", Undefined, id, result)
         /\ IF result.thrown = NoThrow
              THEN /\ promises' = Append(promises, [status |-> promise.status, delivered |-> 0])
                   /\ jobs' = then(jobs, id, promise)
              ELSE UNCHANGED <<promises, jobs>>
  /\ UNCHANGED <<lastSuccess, lastFailure>>

\* An accepted promise that was unsettled fulfils or rejects.
Settle(id, outcome) ==
  /\ id \in 1..Len(promises)
  /\ promises[id].status = "unsettled"
  /\ promises' = [promises EXCEPT ![id].status = outcome.status]
  /\ jobs' = then(jobs, id, outcome)
  /\ UNCHANGED <<kind, state, data, hooks, lastOp, lastSuccess, lastFailure, derived,
                 aggregate, returned, chained, sibling, seen>>

\* A reaction that is dropped unless its promise is the one accepted last,
\* as if a later accept cancelled the earlier ones.
RunJob_latestOnly ==
  /\ jobs # <<>>
  /\ LET job == Head(jobs)
     IN  IF job.id = Len(promises)
           THEN /\ Returns("settlement", job.outcome, job.id, reaction(this, job))
                /\ promises' = [promises EXCEPT ![job.id].delivered = @ + 1]
                /\ IF job.status = "fulfilled"
                     THEN lastSuccess' = job.outcome /\ UNCHANGED lastFailure
                     ELSE lastFailure' = job.outcome /\ UNCHANGED lastSuccess
           ELSE UNCHANGED <<kind, state, data, hooks, lastOp, lastSuccess, lastFailure,
                            promises, derived, aggregate, returned, chained, sibling,
                            seen>>
  /\ jobs' = Tail(jobs)

\* The microtask at the head of the queue runs: f.success or f.failure.
RunJob ==
  /\ jobs # <<>>
  /\ LET job == Head(jobs)
     IN  /\ Returns("settlement", job.outcome, job.id, reaction(this, job))
         /\ promises' = [promises EXCEPT ![job.id].delivered = @ + 1]
         /\ IF job.status = "fulfilled"
              THEN lastSuccess' = job.outcome /\ UNCHANGED lastFailure
              ELSE lastFailure' = job.outcome /\ UNCHANGED lastSuccess
  /\ jobs' = Tail(jobs)

Next ==
  \/ \E v \in Values : Success(v)
  \/ \E e \in Errors : Failure(e)
  \/ Pending
  \/ Loading
  \/ \E promise \in PromiseInputs : Accept(promise)
  \/ \E id \in 1..MaxPromises, outcome \in Settled : Settle(id, outcome)
  \/ RunJob

Spec == Init /\ [][Next]_vars

\* One accept and nothing else after it: the holder is brought to any state
\* by direct calls, accepts one promise, and from then on only the promise's
\* settlement and its reaction happen. The microtask queue is always
\* drained, so a queued reaction eventually runs.
SoleAcceptNext ==
  \/ \E v \in Values : promises = <<>> /\ Success(v)
  \/ \E e \in Errors : promises = <<>> /\ Failure(e)
  \/ promises = <<>> /\ Pending
  \/ promises = <<>> /\ Loading
  \/ \E promise \in PromiseInputs : promises = <<>> /\ Accept(promise)
  \/ \E outcome \in Settled : Settle(1, outcome)
  \/ RunJob

SoleAcceptSpec == Init /\ [][SoleAcceptNext]_vars /\ WF_vars(RunJob)

\* One accept with direct calls around it: the holder accepts one promise
\* and is called directly before the accept, between the accept and the
\* settlement, and after it. The microtask queue is always drained.
InterleavedNext ==
  \/ \E v \in Values : Success(v)
  \/ \E e \in Errors : Failure(e)
  \/ Pending
  \/ Loading
  \/ \E promise \in PromiseInputs : promises = <<>> /\ Accept(promise)
  \/ \E outcome \in Settled : Settle(1, outcome)
  \/ RunJob

InterleavedSpec == Init /\ [][InterleavedNext]_vars /\ WF_vars(RunJob)

\* The accept-oriented workflow: the holder is driven by accept alone, so
\* every transition is accept's own or the reaction of an accepted promise.
AcceptOnlyNext ==
  \/ \E promise \in PromiseInputs : Accept(promise)
  \/ \E id \in 1..MaxPromises, outcome \in Settled : Settle(id, outcome)
  \/ RunJob

AcceptOnlySpec == Init /\ [][AcceptOnlyNext]_vars

\* holder.derive(options): a derived holder is constructed over the primary
\* holder, in whatever state that is.
Derive(options) ==
  /\ derived.kind = "none"
  /\ derived' = derive(this, options)
  /\ UNCHANGED <<kind, state, data, hooks, lastOp, lastSuccess, lastFailure, promises, jobs,
                 aggregate, returned, chained, sibling, seen>>

\* A primary holder with a holder derived from it: the source is driven by
\* direct calls and by one accepted promise, and derive is called once, at
\* any moment.
DerivedNext ==
  \/ \E v \in Values : Success(v)
  \/ \E e \in Errors : Failure(e)
  \/ Pending
  \/ Loading
  \/ \E promise \in PromiseInputs : promises = <<>> /\ Accept(promise)
  \/ \E outcome \in Settled : Settle(1, outcome)
  \/ RunJob
  \/ \E options \in DeriveOptions : Derive(options)

DerivedSpec == Init /\ [][DerivedNext]_vars

\* Failable.all(values)
All(values) ==
  /\ ~aggregate.created
  /\ aggregate' = all(values)
  /\ UNCHANGED <<kind, state, data, hooks, lastOp, lastSuccess, lastFailure, promises, jobs,
                 derived, returned, chained, sibling, seen>>

\* A call on input i of the collection has returned `after` as the receiver.
InputReturns(i, after) ==
  /\ aggregate' = all_reaction(aggregate, i, after)
  /\ UNCHANGED <<kind, state, data, hooks, lastOp, lastSuccess, lastFailure, promises, jobs,
                 derived, returned, chained, sibling, seen>>

Input(i) == [aggregate.values.props[i].value EXCEPT !.hooks = <<>>]

\* values[key].success(v)
InputSuccess(i, v) ==
  /\ aggregate.created
  /\ i \in 1..Len(aggregate.values.props)
  /\ InputReturns(i, Failable_success(Input(i), v))

\* values[key].failure(e)
InputFailure(i, e) ==
  /\ aggregate.created
  /\ i \in 1..Len(aggregate.values.props)
  /\ InputReturns(i, Failable_failure(Input(i), e))

\* values[key].pending()
InputPending(i) ==
  /\ aggregate.created
  /\ i \in 1..Len(aggregate.values.props)
  /\ InputReturns(i, Failable_pending(Input(i)))

\* Failable.all over a collection of Failables, which then go through any
\* sequence of transitions.
AllNext ==
  \/ ~aggregate.created /\ \E values \in Collections : All(values)
  \/ \E i \in 1..MaxInputs, v \in Values : InputSuccess(i, v)
  \/ \E i \in 1..MaxInputs, e \in InputErrors : InputFailure(i, e)
  \/ \E i \in 1..MaxInputs : InputPending(i)

\* The inputs are Failables of their own; the primary holder stays as
\* constructed.
AllInit == Init /\ kind = "Failable"

AllSpec == AllInit /\ [][AllNext]_vars

\* Failable.all([holder]) and Failable.all({k1: holder}) over the primary
\* holder, in whatever state that is.
AllOver(isArray) ==
  /\ kind = "Failable"
  /\ ~aggregate.created
  /\ aggregate' = all(IF isArray THEN ArrayOf(<<this>>) ELSE MappingOf(<<this>>))
  /\ UNCHANGED <<kind, state, data, hooks, lastOp, lastSuccess, lastFailure, promises, jobs,
                 derived, returned, chained, sibling, seen>>

\* A primary holder observed by a holder derived from it and by an
\* aggregate over it, each created at any moment; the holder is driven by
\* direct calls.
ObservedNext ==
  \/ \E v \in Values : Success(v)
  \/ \E e \in Errors : Failure(e)
  \/ Pending
  \/ Loading
  \/ \E options \in DeriveOptions : Derive(options)
  \/ \E isArray \in BOOLEAN : AllOver(isArray)

ObservedSpec == Init /\ [][ObservedNext]_vars

\* The options objects handed to derive where two derived holders are
\* constructed: a callback for one case (as map and rescue pass it) or for
\* all three, which return or throw.
UniformOptions ==
  {[name \in {"success", "failure", "pending"} |->
      IF name \in cases THEN f ELSE NoCallback] :
     cases \in {{"success"}, {"failure"}, {"pending"}, {"success", "failure", "pending"}},
     f \in {"returns", "throws"}}

\* The options objects whose callbacks return and throw in turn.
AlternatingOptions ==
  {[name \in {"success", "failure", "pending"} |->
      IF name \in cases THEN f ELSE NoCallback] :
     cases \in {{"success"}, {"failure"}, {"pending"}, {"success", "failure", "pending"}},
     f \in AlternatingBehaviours}

\* A primary holder driven by direct calls, with a holder derived from it
\* at any moment whose callbacks return and throw in turn.
AlternatingNext ==
  \/ \E v \in Values : Success(v)
  \/ \E e \in Errors : Failure(e)
  \/ Pending
  \/ Loading
  \/ \E options \in AlternatingOptions : Derive(options)

AlternatingSpec == Init /\ [][AlternatingNext]_vars

\* derived.derive(options): a holder is constructed over the derived holder.
DeriveFurther(options) ==
  /\ derived.kind # "none"
  /\ chained.kind = "none"
  /\ chained' = derive(derived, options)
  /\ UNCHANGED <<kind, state, data, hooks, lastOp, lastSuccess, lastFailure, promises, jobs,
                 derived, aggregate, returned, sibling, seen>>

\* A chain of derivations: the primary holder is driven by direct calls, a
\* holder is derived from it and another from that one, each at any moment.
ChainedNext ==
  \/ \E v \in Values : Success(v)
  \/ \E e \in Errors : Failure(e)
  \/ Pending
  \/ Loading
  \/ \E options \in DeriveOptions : Derive(options)
  \/ \E options \in UniformOptions : DeriveFurther(options)

\* A constructor that calls pending() on the holder it is given.
DeriveAgain_resetsSource(options) ==
  /\ sibling.kind = "none"
  /\ LET reset == Future_pending(this)
     IN  /\ state' = reset.state
         /\ data' = reset.data
         /\ sibling' = derive(reset, options)
  /\ UNCHANGED <<kind, hooks, lastOp, lastSuccess, lastFailure, promises, jobs,
                 derived, aggregate, returned, chained, seen>>

\* holder.derive(options) once more: a second derived holder is constructed
\* over the primary holder.
DeriveAgain(options) ==
  /\ sibling.kind = "none"
  /\ sibling' = derive(this, options)
  /\ UNCHANGED <<kind, state, data, hooks, lastOp, lastSuccess, lastFailure, promises, jobs,
                 derived, aggregate, returned, chained, seen>>

\* A primary holder shared by two holders derived from it and an aggregate
\* over it, each constructed at any moment; the holder is driven by direct
\* calls.
SharedNext ==
  \/ \E v \in Values : Success(v)
  \/ \E e \in Errors : Failure(e)
  \/ Pending
  \/ Loading
  \/ \E options \in UniformOptions : Derive(options)
  \/ \E options \in UniformOptions : DeriveAgain(options)
  \/ \E isArray \in BOOLEAN : AllOver(isArray)

SharedSpec == Init /\ [][SharedNext]_vars

ChainedSpec == Init /\ [][ChainedNext]_vars

\* The default values handed to successOr and failureOr: a plain value and
\* a function that produces it.
Lazies == {Never, Thunk(Never)}

\* The numbers toState is applied to: the codes of the three-bit encoding.
TraitCodes == 0..BitOr(aMask, fMask)

\* A call returned `result` and assigned nothing.
Gives(name, args, result) ==
  /\ returned' = [op |-> name, args |-> args, calls |-> result.calls,
                  threw |-> result.threw, value |-> result.value]
  /\ UNCHANGED <<kind, state, data, hooks, lastOp, lastSuccess, lastFailure, promises, jobs,
                 derived, aggregate, chained, sibling, seen>>

\* holder.match(options)
Match(options) == Gives("match", <<options>>, Future_match(this, options))

\* holder.successOr(defaultValue)
SuccessOr(defaultValue) ==
  LET result == successOr(this, defaultValue)
  IN  Gives("successOr", <<defaultValue>>,
            [calls |-> result.forced, threw |-> FALSE, value |-> result.value])

\* holder.failureOr(defaultValue)
FailureOr(defaultValue) ==
  LET result == failureOr(this, defaultValue)
  IN  Gives("failureOr", <<defaultValue>>,
            [calls |-> result.forced, threw |-> FALSE, value |-> result.value])

\* TraitSet(s)
Traits(s) ==
  Gives("TraitSet", <<Str(s)>>, [calls |-> <<>>, threw |-> FALSE, value |-> Num(TraitSet(s))])

\* toState(traits)
ToState(traits) ==
  LET result == toState(traits)
  IN  Gives("toState", <<Num(traits)>>,
            [calls |-> <<>>, threw |-> result = TypeError, value |-> Str(result)])

\* withFlight(s, flight)
WithFlight(s, flight) ==
  LET result == withFlight(s, flight)
  IN  Gives("withFlight", <<Str(s), Num(flight)>>,
            [calls |-> <<>>, threw |-> result = TypeError, value |-> Str(result)])

\* withAvailability(s, availability)
WithAvailability(s, availability) ==
  LET result == withAvailability(s, availability)
  IN  Gives("withAvailability", <<Str(s), Num(availability)>>,
            [calls |-> <<>>, threw |-> result = TypeError, value |-> Str(result)])

\* A holder driven by direct calls, with the calls that only read it, and the
\* trait functions applied to every state, code, flight and availability.
QueryNext ==
  \/ \E v \in Values : Success(v)
  \/ \E e \in Errors : Failure(e)
  \/ Pending
  \/ Loading
  \/ \E options \in MatchOptions : Match(options)
  \/ \E defaultValue \in Lazies : SuccessOr(defaultValue)
  \/ \E defaultValue \in Lazies : FailureOr(defaultValue)
  \/ \E s \in LoadableStates : Traits(s)
  \/ \E traits \in TraitCodes : ToState(traits)
  \/ \E s \in LoadableStates, flight \in {Flight_idle, Flight_busy} : WithFlight(s, flight)
  \/ \E s \in LoadableStates,
        availability \in {Availability_none, Availability_value, Availability_error} :
          WithAvailability(s, availability)

QuerySpec == Init /\ [][QueryNext]_vars

\* ------------------------------------------------------------- properties
\* The six states by trait, as the documentation tabulates them.
IdleStates == {"empty", "success", "failure"}
BusyStates == {"pending", "reloading", "retrying"}
NoneStates == {"empty", "pending"}
ValueStates == {"success", "reloading"}
ErrorStates == {"failure", "retrying"}
SameAvailability(s, t) ==
  \/ {s, t} \subseteq NoneStates
  \/ {s, t} \subseteq ValueStates
  \/ {s, t} \subseteq ErrorStates

HookCount(name) == Cardinality({k \in 1..Len(hooks) : hooks[k].name = name})

\* C1: when Failable.accept returns, whatever the prior state and even when
\* the promise was already settled, the state is pending, the payload is
\* absent, and no settlement transition has been applied: the only hook the
\* call invoked is didBecomePending and the promise has delivered nothing.
C1_FailableAcceptReturnsPending ==
  (kind = "Failable" /\ lastOp.op = "accept") =>
    /\ state = "pending"
    /\ data = Undefined
    /\ lastOp.thrown = NoThrow
    /\ HookCount("didBecomePending") = Len(hooks)
    /\ promises[lastOp.id].delivered = 0

\* A Failable that was success has just accepted an already settled promise,
\* whose reaction is waiting in the microtask queue.
C1_Witness ==
  /\ kind = "Failable"
  /\ lastOp.op = "accept"
  /\ lastOp.preState = "success"
  /\ promises[lastOp.id].status = "fulfilled"
  /\ \E k \in 1..Len(jobs) : jobs[k].id = lastOp.id

\* C3: when Loadable.accept returns, the flight is busy and availability and
\* payload are those before the call: empty became pending, success
\* reloading, failure retrying, and a busy Loadable kept its state.
C3_LoadableAcceptReturnsBusy ==
  (kind = "Loadable" /\ lastOp.op = "accept") =>
    /\ state \in BusyStates
    /\ SameAvailability(state, lastOp.preState)
    /\ data = lastOp.preData
    /\ lastOp.preState = "empty" => state = "pending"
    /\ lastOp.preState = "success" => state = "reloading"
    /\ lastOp.preState = "failure" => state = "retrying"
    /\ lastOp.preState \in BusyStates => state = lastOp.preState

\* A Loadable holding a value has just accepted a promise and is reloading
\* with that value.
C3_Witness ==
  /\ kind = "Loadable"
  /\ lastOp.op = "accept"
  /\ lastOp.preState = "success"
  /\ state = "reloading"
  /\ data \in Values

\* C4: in every reachable state of a Failable, pending carries no payload,
\* success carries the value of the most recent success transition and
\* failure the error of the most recent failure transition.
C4_FailablePayloadMatchesState ==
  kind = "Failable" =>
    /\ state \in FutureStates
    /\ state = "pending" => data = Undefined
    /\ state = "success" => (data \in Values /\ data = lastSuccess)
    /\ state = "failure" => (data \in Errors /\ data = lastFailure)

\* A Failable that held one value and was then set to another one.
C4_Witness ==
  /\ kind = "Failable"
  /\ lastOp.preState = "success"
  /\ state = "success"
  /\ data # lastOp.preData
  /\ lastFailure # Undefined

\* C5: in every reachable state of a Loadable, availability is none exactly
\* when the payload is absent, value exactly when the payload is the last
\* success value, error exactly when it is the last failure error.
C5_LoadableAvailabilityMatchesPayload ==
  kind = "Loadable" =>
    /\ state \in LoadableStates
    /\ state \in NoneStates <=> data = Undefined
    /\ state \in ValueStates <=> (data \in Values /\ data = lastSuccess)
    /\ state \in ErrorStates <=> (data \in Errors /\ data = lastFailure)

\* A Loadable retrying with its last error after having held a value.
C5_Witness ==
  /\ kind = "Loadable"
  /\ state = "retrying"
  /\ lastSuccess # Undefined
  /\ data = lastFailure

\* C2: after accept(p) with no other transition or accept intervening, once
\* p has fulfilled with v the holder (Failable or Loadable) eventually is in
\* state success with payload v, and once p has rejected with e it eventually
\* is in state failure with payload exactly e; it then stays so.
SettledWith(outcome) ==
  /\ Len(promises) = 1
  /\ promises[1].status = outcome.status
  /\ promises[1].delivered = 0
  /\ jobs = <<[id |-> 1, status |-> outcome.status, outcome |-> outcome.outcome]>>

Shows(outcome) ==
  /\ state = (IF outcome.status = "fulfilled" THEN "success" ELSE "failure")
  /\ data = outcome.outcome

C2_SettlementReachesHolder ==
  \A outcome \in Settled : SettledWith(outcome) ~> [](Shows(outcome))

\* A Loadable that was retrying when its promise fulfilled shows the value.
C2_Witness ==
  /\ kind = "Loadable"
  /\ lastOp.op = "settlement"
  /\ lastOp.preState = "retrying"
  /\ promises[1].status = "fulfilled"
  /\ Shows(Fulfilled(lastOp.arg))

\* C6: Loadable.loading(), and its alias pending(), changes only the flight,
\* to busy: empty becomes pending, success reloading, failure retrying;
\* availability and payload are those before the call.
C6_LoadingChangesOnlyFlight ==
  (kind = "Loadable" /\ lastOp.op \in {"loading", "pending"}) =>
    /\ state \in BusyStates
    /\ SameAvailability(state, lastOp.preState)
    /\ data = lastOp.preData
    /\ lastOp.preState = "empty" => state = "pending"
    /\ lastOp.preState = "success" => state = "reloading"
    /\ lastOp.preState = "failure" => state = "retrying"
    /\ lastOp.thrown = NoThrow

\* A Loadable in failure was set loading through the alias pending() and is
\* retrying with its error.
C6_Witness ==
  /\ kind = "Loadable"
  /\ lastOp.op = "pending"
  /\ lastOp.preState = "failure"
  /\ state = "retrying"
  /\ data \in Errors

\* C7: loading() on a busy Loadable leaves state and payload unchanged and
\* invokes no hook; over all calls, didBecomeLoading is invoked once by a
\* call that changes the flight from idle to busy and by no other call.
C7_LoadingIdempotent ==
  (kind = "Loadable" /\ lastOp.op # "new") =>
    /\ (lastOp.op \in {"loading", "pending"} /\ lastOp.preState \in BusyStates) =>
         (state = lastOp.preState /\ data = lastOp.preData /\ hooks = <<>>)
    /\ HookCount("didBecomeLoading") =
         IF lastOp.preState \in IdleStates /\ state \in BusyStates THEN 1 ELSE 0

\* loading() was called on a Loadable that was already reloading.
C7_Witness ==
  /\ kind = "Loadable"
  /\ lastOp.op = "loading"
  /\ lastOp.preState = "reloading"
  /\ state = "reloading"
  /\ hooks = <<>>

\* C8: Loadable.success(v) ends in state success with payload v and
\* Loadable.failure(e) in state failure with payload e, from each of the six
\* prior states, whether called directly or as a promise's reaction.
C8_SuccessFailureLandIdle ==
  kind = "Loadable" =>
    /\ lastOp.op = "success" => (state = "success" /\ data = lastOp.arg)
    /\ lastOp.op = "failure" => (state = "failure" /\ data = lastOp.arg)
    /\ lastOp.op = "settlement" =>
         /\ state \in {"success", "failure"}
         /\ data = lastOp.arg
         /\ state = "success" <=> promises[lastOp.id].status = "fulfilled"

\* success(v) was called on a retrying Loadable.
C8_Witness ==
  /\ kind = "Loadable"
  /\ lastOp.op = "success"
  /\ lastOp.preState = "retrying"
  /\ state = "success"

\* C9: a Loadable is empty only before its first transition and never again,
\* and once its availability is value or error no step returns it to none
\* (empty or pending).
C9_NoneOnlyOnce ==
  /\ []((kind = "Loadable" /\ state = "empty") => lastOp.op = "new")
  /\ [][kind = "Loadable" =>
          /\ state # "empty" => state' # "empty"
          /\ state \notin NoneStates => state' \notin NoneStates]_vars

\* A Loadable with an error has accepted a promise after its first cycle.
C9_Witness ==
  /\ kind = "Loadable"
  /\ lastOp.op = "accept"
  /\ lastOp.preState = "failure"
  /\ lastSuccess # Undefined
  /\ state = "retrying"

\* C10: whenever a Loadable's flight is idle, no promise it has accepted is
\* still unsettled. Checked in the accept-oriented workflow, where no direct
\* success or failure call ends the flight.
C10_IdleMeansNothingInProgress ==
  (kind = "Loadable" /\ state \in IdleStates) =>
    \A id \in 1..Len(promises) : promises[id].status # "unsettled"

\* ------------------------------------------------ properties, derived holders
\* The case of a source (success, failure or pending) and the arguments the
\* derive callback of that case is documented to receive.
CaseOf(k, s) ==
  IF k = "Failable" THEN s
  ELSE IF s \in ValueStates THEN "success"
  ELSE IF s \in ErrorStates THEN "failure"
  ELSE "pending"

Attached == derived.kind # "none"
CurrentCase == CaseOf(kind, state)
CurrentCallback == derived.options[CurrentCase]

\* C11: a DerivedFailable, once constructed and after every call on its
\* source (success, failure, pending, accept, a settlement reaction), shows
\* the protocol result for the source's current case: the source's state and
\* payload when the options have no callback for the case, success with the
\* callback's return value, or failure with the value the callback threw.
C11_DerivedFailableFollowsSource ==
  derived.kind = "DerivedFailable" =>
    LET f == derived.options[state]
        args == <<data>>
    IN  /\ f = NoCallback => (derived.state = state /\ derived.data = data)
        /\ (f # NoCallback /\ ~Throws(f, args)) =>
             (derived.state = "success" /\ derived.data = Returned(state, args))
        /\ (f # NoCallback /\ Throws(f, args)) =>
             (derived.state = "failure" /\ derived.data = Thrown(state, args))

\* A settlement reaction changed the source from one value to another and
\* the derived holder shows the callback's result for the new value.
C11_Witness ==
  /\ derived.kind = "DerivedFailable"
  /\ lastOp.op = "settlement"
  /\ lastOp.preState = "success"
  /\ state = "success"
  /\ data # lastOp.preData
  /\ derived.runs = 1
  /\ derived.data = Returned("success", <<data>>)

\* C12: when the callback for the source's current case throws, the derived
\* holder (of either class) is in its failure case with exactly the thrown
\* value as payload, also when the source is a success; the source call that
\* triggered the recomputation returned normally and left the source with
\* the state and payload that call sets; constructing the derived holder
\* leaves the source's state and payload alone.
C12_ThrowingCallbackBecomesFailure ==
  /\ [](\A k \in 1..Len(derived.calls) :
          LET call == derived.calls[k]
          IN  Throws(derived.options[call.name], call.args) =>
                /\ derived.state \in ErrorStates
                /\ derived.data = Thrown(call.name, call.args)
                /\ lastOp.thrown = NoThrow
                /\ lastOp.op \in {"success", "failure", "settlement"} => data = lastOp.arg
                /\ lastOp.op = "success" => state = "success"
                /\ lastOp.op = "failure" => state = "failure")
  /\ [][derived'.calls # <<>> /\ derived.kind = "none" =>
          state' = state /\ data' = data]_vars

\* The success callback threw for the value a direct success call had just
\* set: the source is success, the derived holder failure.
C12_Witness ==
  /\ Attached
  /\ lastOp.op = "success"
  /\ state = "success"
  /\ derived.calls # <<>>
  /\ derived.state = "failure"
  /\ derived.data = Thrown("success", <<data>>)

\* C13: when the options have no callback for the source's current case, the
\* derived holder has the source's state and payload and the recomputation
\* invoked no callback.
C13_MissingCallbackMirrors ==
  (Attached /\ CurrentCallback = NoCallback) =>
    /\ derived.state = state
    /\ derived.data = data
    /\ derived.calls = <<>>

\* A success-only derivation whose source failed while retrying passes the
\* failure through.
C13_Witness ==
  /\ derived.kind = "DerivedLoadable"
  /\ derived.options.success # NoCallback
  /\ derived.options.failure = NoCallback
  /\ derived.options.pending = NoCallback
  /\ derived.runs = 1
  /\ state = "retrying"
  /\ derived.state = "retrying"
  /\ derived.data \in Errors

\* C14: a DerivedLoadable has the flight of its source; a callback that
\* returned gives it availability value and one that threw availability
\* error, for the pending callback as for the others.
C14_DerivedLoadableKeepsFlight ==
  derived.kind = "DerivedLoadable" =>
    LET f == CurrentCallback
        args == IF CurrentCase = "pending" THEN <<Bool(state \in BusyStates)>>
                ELSE <<data, Bool(state \in BusyStates)>>
    IN  /\ derived.state \in LoadableStates
        /\ derived.state \in BusyStates <=> state \in BusyStates
        /\ (f # NoCallback /\ ~Throws(f, args)) =>
             /\ derived.state = (IF state \in BusyStates THEN "reloading" ELSE "success")
             /\ derived.data = Returned(CurrentCase, args)
        /\ (f # NoCallback /\ Throws(f, args)) =>
             /\ derived.state = (IF state \in BusyStates THEN "retrying" ELSE "failure")
             /\ derived.data = Thrown(CurrentCase, args)

\* The source is pending and the pending callback returned: the derived
\* holder is reloading.
C14_Witness ==
  /\ derived.kind = "DerivedLoadable"
  /\ state = "pending"
  /\ derived.options.pending = "returns"
  /\ derived.state = "reloading"
  /\ derived.runs = 1

\* C15: every callback a DerivedLoadable invokes receives as its last
\* argument whether the source's flight is busy; the success and failure
\* callbacks receive two arguments, the source's payload first, and the
\* pending callback the flag alone.
C15_CallbacksReceiveLoadingFlag ==
  derived.kind = "DerivedLoadable" =>
    /\ (CurrentCallback # NoCallback /\ derived.runs > 0) => derived.calls # <<>>
    /\ \A k \in 1..Len(derived.calls) :
         LET call == derived.calls[k]
         IN  /\ call.name = CurrentCase
             /\ call.args[Len(call.args)] = Bool(Loadable_isLoading(this))
             /\ call.args[Len(call.args)] = Bool(state \in BusyStates)
             /\ call.name \in {"success", "failure"} => call.args = <<data, Bool(state \in BusyStates)>>
             /\ call.name = "pending" => Len(call.args) = 1

\* The failure callback ran for a source that had just started retrying and
\* received the error and the flag true.
C15_Witness ==
  /\ derived.kind = "DerivedLoadable"
  /\ state = "retrying"
  /\ lastOp.preState = "failure"
  /\ derived.calls = <<[name |-> "failure", args |-> <<data, Bool(TRUE)>>]>>

\* --------------------------------------------------- properties, Failable.all
Inputs == [i \in 1..Len(aggregate.values.props) |-> aggregate.values.props[i].value]
FailedInputs == {i \in 1..Len(Inputs) : Inputs[i].state = "failure"}
PendingInputs == {i \in 1..Len(Inputs) : Inputs[i].state = "pending"}

\* C16: over a non-empty collection, once created and after every call on an
\* input, the aggregate is failure if some input is failure, otherwise
\* pending without payload if some input is pending, otherwise success.
C16_AggregateFollowsInputs ==
  (aggregate.created /\ Len(Inputs) > 0) =>
    /\ FailedInputs # {} => aggregate.result.state = "failure"
    /\ (FailedInputs = {} /\ PendingInputs # {}) =>
         (aggregate.result.state = "pending" /\ aggregate.result.data = Undefined)
    /\ (FailedInputs = {} /\ PendingInputs = {}) => aggregate.result.state = "success"

\* An input after the first failed one has just become pending; the autorun
\* did not run and the aggregate is still failure.
C16_Witness ==
  /\ aggregate.created
  /\ aggregate.last > 1
  /\ aggregate.last \in PendingInputs
  /\ 1 \in FailedInputs
  /\ aggregate.runs = 0
  /\ aggregate.result.state = "failure"

\* C17: when inputs are failure, the aggregate's payload is the error of the
\* failed input that comes first in the collection's iteration order, after
\* every call on an input: whichever input failed last, and also when an
\* earlier input has just left failure.
C17_FirstFailureWins ==
  (aggregate.created /\ FailedInputs # {}) =>
    LET first == CHOOSE i \in FailedInputs : \A j \in FailedInputs : i <= j
    IN  /\ aggregate.result.data = Inputs[first].data
        /\ aggregate.result.data \in InputErrors

\* The first input has just left failure while two later inputs are failure
\* with different errors: the aggregate shows the error of the earlier one.
C17_Witness ==
  /\ aggregate.created
  /\ aggregate.last = 1
  /\ aggregate.runs = 1
  /\ FailedInputs = {2, 3}
  /\ Inputs[2].data # Inputs[3].data
  /\ aggregate.result.data = Inputs[2].data

\* C18: over an empty array or mapping, the holder Failable.all returns is
\* success with an empty array, respectively an empty mapping; no autorun
\* was registered, and no step changes it.
C18_EmptyCollectionSucceeds ==
  /\ []((aggregate.created /\ Len(Inputs) = 0) =>
          /\ aggregate.result.state = "success"
          /\ aggregate.result.data =
               (IF aggregate.values.isArray THEN JsArray(<<>>) ELSE JsObject(<<>>))
          /\ aggregate.tracked = {}
          /\ aggregate.runs = 0)
  /\ [][(aggregate.created /\ Len(Inputs) = 0) => aggregate' = aggregate]_vars

\* Failable.all was called on an empty array.
C18_Witness ==
  /\ aggregate.created
  /\ aggregate.values.isArray
  /\ Len(Inputs) = 0
  /\ aggregate.result.data = JsArray(<<>>)

\* C19: when every input is success, the aggregate's payload is an array of
\* the inputs' current values in order for an array, and for a mapping an
\* object with the same keys in order, each with that input's current value.
C19_CollectedValueKeepsShape ==
  (aggregate.created /\ Len(Inputs) > 0 /\ \A i \in 1..Len(Inputs) : Inputs[i].state = "success") =>
    LET payload == aggregate.result.data
    IN  /\ payload.kind = (IF aggregate.values.isArray THEN "Array" ELSE "Object")
        /\ Len(payload.items) = Len(Inputs)
        /\ \A i \in 1..Len(Inputs) :
             IF aggregate.values.isArray
               THEN payload.items[i] = Inputs[i].data
               ELSE /\ payload.items[i].key = aggregate.values.props[i].key
                    /\ payload.items[i].value = Inputs[i].data

\* The last input of an array of three has just been given a new value and
\* the aggregate holds the three values, not all the same.
C19_Witness ==
  /\ aggregate.created
  /\ aggregate.values.isArray
  /\ Len(Inputs) = 3
  /\ aggregate.last = 3
  /\ aggregate.runs = 1
  /\ \A i \in 1..3 : Inputs[i].state = "success"
  /\ Inputs[1].data # Inputs[3].data
  /\ aggregate.result.data = JsArray(<<Inputs[1].data, Inputs[2].data, Inputs[3].data>>)

\* ------------------------------------------------------- properties, match
\* C20: in every reachable state of a Failable exactly one of isSuccess,
\* isFailure and isPending is true, the one named by the state; match invokes
\* one callback, that of the state, with the value, with the error, or with
\* no argument, and what comes out of match is what came out of the callback;
\* after success(v), match with an identity success callback returns v.
C20_FailablePredicatesAndMatch ==
  kind = "Failable" =>
    /\ Cardinality({p \in {"success", "failure", "pending"} :
                      \/ p = "success" /\ Failable_isSuccess(this)
                      \/ p = "failure" /\ Failable_isFailure(this)
                      \/ p = "pending" /\ Failable_isPending(this)}) = 1
    /\ Failable_isSuccess(this) <=> state = "success"
    /\ Failable_isFailure(this) <=> state = "failure"
    /\ Failable_isPending(this) <=> state = "pending"
    /\ \A options \in MatchOptions :
         LET result == Failable_match(this, options)
             args == IF state = "pending" THEN <<>> ELSE <<data>>
             expected == Invoke(options[state], state, args)
         IN  /\ result.calls = <<[name |-> state, args |-> args]>>
             /\ result.threw = expected.threw
             /\ result.value = expected.value
    /\ lastOp.op = "success" =>
         LET result == Failable_match(this, [success |-> "identity", failure |-> "identity",
                                             pending |-> "identity"])
         IN  ~result.threw /\ result.value = lastOp.arg

\* success(v) was called on a Failable in failure, and match with identity
\* callbacks invokes the success callback alone and returns v.
C20_Witness ==
  /\ kind = "Failable"
  /\ lastOp.op = "success"
  /\ lastOp.preState = "failure"
  /\ LET result == Failable_match(this, [success |-> "identity", failure |-> "identity",
                                         pending |-> "identity"])
     IN  /\ result.calls = <<[name |-> "success", args |-> <<data>>]>>
         /\ result.value = lastOp.arg
         /\ result.value \in Values

\* ------------------------------------------- properties, Loadable predicates
\* C21: in each of the six states of a Loadable, isSuccess is true exactly in
\* success and reloading, isFailure exactly in failure and retrying, isPending
\* exactly in empty and pending, isLoading exactly in pending, reloading and
\* retrying; exactly one of isSuccess, isFailure and isPending is true.
C21_LoadablePredicates ==
  kind = "Loadable" =>
    /\ state \in LoadableStates
    /\ Loadable_isSuccess(this) <=> state \in {"success", "reloading"}
    /\ Loadable_isFailure(this) <=> state \in {"failure", "retrying"}
    /\ Loadable_isPending(this) <=> state \in {"empty", "pending"}
    /\ Loadable_isLoading(this) <=> state \in {"pending", "reloading", "retrying"}
    /\ Cardinality({p \in {"success", "failure", "pending"} :
                      \/ p = "success" /\ Loadable_isSuccess(this)
                      \/ p = "failure" /\ Loadable_isFailure(this)
                      \/ p = "pending" /\ Loadable_isPending(this)}) = 1

\* A Loadable that has an error and is loading again: isFailure and isLoading
\* are true, isSuccess and isPending false.
C21_Witness ==
  /\ kind = "Loadable"
  /\ state = "retrying"
  /\ Loadable_isFailure(this)
  /\ Loadable_isLoading(this)
  /\ ~Loadable_isSuccess(this)
  /\ ~Loadable_isPending(this)

\* C22: Loadable.match invokes exactly one callback, chosen by availability:
\* success(value, loading) in success and reloading, failure(error, loading)
\* in failure and retrying, pending(loading) in empty and pending, where
\* loading is isLoading, true exactly in the busy state of each pair; what
\* comes out of match is what came out of that callback.
C22_LoadableMatchByAvailability ==
  (kind = "Loadable" /\ returned.op = "match") =>
    LET options == returned.args[1]
        loading == Bool(state \in {"pending", "reloading", "retrying"})
        name == CASE state \in {"success", "reloading"} -> "success"
                  [] state \in {"failure", "retrying"} -> "failure"
                  [] state \in {"empty", "pending"} -> "pending"
        args == IF name = "pending" THEN <<loading>> ELSE <<data, loading>>
    IN  /\ returned.calls = <<[name |-> name, args |-> args]>>
        /\ loading = Bool(Loadable_isLoading(this))
        /\ options[name] = "returns" =>
             (~returned.threw /\ returned.value = Returned(name, args))
        /\ options[name] = "identity" =>
             (~returned.threw /\ returned.value = args[1])
        /\ options[name] = "throws" =>
             (returned.threw /\ returned.value = Thrown(name, args))

\* match on a reloading Loadable invoked the success callback alone, with the
\* value and the flag true, and returned what the callback returned.
C22_Witness ==
  /\ kind = "Loadable"
  /\ state = "reloading"
  /\ returned.op = "match"
  /\ returned.args[1].success = "identity"
  /\ returned.calls = <<[name |-> "success", args |-> <<data, Bool(TRUE)>>]>>
  /\ returned.value = data
  /\ data \in Values

\* --------------------------------------- properties, successOr and failureOr
HasValue == IF kind = "Failable" THEN state = "success" ELSE state \in {"success", "reloading"}
HasError == IF kind = "Failable" THEN state = "failure" ELSE state \in {"failure", "retrying"}
ThunkCalls == Cardinality({k \in 1..Len(returned.calls) : returned.calls[k].kind = "thunk"})

\* C23: successOr(d) returns the holder's value when it has one (Failable:
\* success; Loadable: success or reloading) and otherwise the forced default;
\* failureOr(d) returns the error when the holder has one (Failable: failure;
\* Loadable: failure or retrying) and otherwise the forced default; a thunk
\* given as default is invoked once when the default is returned and not at
\* all otherwise; neither call changes the holder's state or payload.
C23_DefaultOnlyWhenNeeded ==
  /\ [](returned.op \in {"successOr", "failureOr"} =>
          LET d == returned.args[1]
              has == IF returned.op = "successOr" THEN HasValue ELSE HasError
          IN  /\ ~returned.threw
              /\ has => (returned.value = data /\ ThunkCalls = 0)
              /\ ~has => /\ returned.value = Never
                         /\ ThunkCalls = (IF d = Thunk(Never) THEN 1 ELSE 0))
  /\ [][returned'.op \in {"successOr", "failureOr"} =>
          (kind' = kind /\ state' = state /\ data' = data)]_vars

\* successOr with a thunk on a reloading Loadable returned the value and did
\* not invoke the thunk.
C23_Witness ==
  /\ kind = "Loadable"
  /\ state = "reloading"
  /\ returned.op = "successOr"
  /\ returned.args = <<Thunk(Never)>>
  /\ returned.value = data
  /\ returned.calls = <<>>

\* ---------------------------------------------------- properties, traits
\* The packed code the documentation gives a state: the availability (none
\* 0, value 1, error 2) shifted left by one, or-ed with the flight (busy 1).
PackedCode(s) ==
  2 * (IF s \in {"success", "reloading"} THEN 1
       ELSE IF s \in {"failure", "retrying"} THEN 2 ELSE 0)
    + (IF s \in {"pending", "reloading", "retrying"} THEN 1 ELSE 0)

\* C24: for each of the six states s, TraitSet(s) is the packed code of s,
\* no other state has that code, and toState gives s back for it.
C24_TraitRoundTrip ==
  /\ returned.op = "TraitSet" =>
       LET s == returned.args[1].str
           code == returned.value.num
       IN  /\ code = PackedCode(s)
           /\ code \in 0..5
           /\ toState(code) = s
           /\ \A other \in LoadableStates \ {s} : TraitSet(other) # code
  /\ returned.op = "toState" =>
       \A s \in LoadableStates :
         returned.args[1].num = TraitSet(s) => (~returned.threw /\ returned.value.str = s)

\* toState was applied to the code of retrying, 5, and gave retrying.
C24_Witness ==
  /\ returned.op = "toState"
  /\ returned.args[1].num = TraitSet("retrying")
  /\ returned.args[1].num = 5
  /\ returned.value.str = "retrying"

\* C25, as stated: for each of the six states s,
\* withFlight(withFlight(s, busy), idle) has the availability of s and the
\* flight s had.
C25_BusyThenIdleRestoresFlight ==
  (returned.op = "withFlight" /\ returned.args[2].num = Flight_busy) =>
    LET s == returned.args[1].str
        result == withFlight(returned.value.str, Flight_idle)
    IN  /\ availabilityOf(Str(result)) = availabilityOf(Str(s))
        /\ flightOf(Str(result)) = flightOf(Str(s))

\* C25, amended: for each of the six states s,
\* withFlight(withFlight(s, busy), idle) is the idle state of the
\* availability of s: s itself when s is empty, success or failure, and
\* empty, success, failure when s is pending, reloading, retrying.
C25_BusyThenIdleIsIdle ==
  (returned.op = "withFlight" /\ returned.args[2].num = Flight_busy) =>
    LET s == returned.args[1].str
        result == withFlight(returned.value.str, Flight_idle)
    IN  /\ ~returned.threw
        /\ returned.value.str \in BusyStates
        /\ SameAvailability(returned.value.str, s)
        /\ result \in IdleStates
        /\ SameAvailability(result, s)
        /\ s \in IdleStates => result = s
        /\ s \in BusyStates => result # s

\* withFlight(reloading, busy) gave reloading, and withFlight of that with
\* idle is success: the busy flight of reloading is not restored.
C25_Witness ==
  /\ returned.op = "withFlight"
  /\ returned.args = <<Str("reloading"), Num(Flight_busy)>>
  /\ returned.value = Str("reloading")
  /\ withFlight(returned.value.str, Flight_idle) = "success"

\* C26: toState returns a state exactly for the six codes 0 to 5, and
\* throws a TypeError for the codes 6 and 7; it returns no state for them.
C26_ToStateRejectsUnusedCodes ==
  returned.op = "toState" =>
    LET code == returned.args[1].num
    IN  /\ code \in 0..7
        /\ code \in 0..5 => (~returned.threw /\ returned.value.str \in LoadableStates)
        /\ code \in {6, 7} =>
             /\ returned.threw
             /\ returned.value.str = TypeError
             /\ returned.value.str \notin LoadableStates
             /\ availabilityOf(Num(code)) = 3

\* toState was applied to 6 and threw.
C26_Witness ==
  /\ returned.op = "toState"
  /\ returned.args[1].num = 6
  /\ returned.threw

\* ------------------------------------------------------ properties, hooks
\* The one hook invocation a transition is documented to make: the hook of
\* its case, with the transition's argument, at a moment when state and
\* payload are already those of the case.
OwnHook(name, s, arg) == <<[name |-> name, arg |-> arg, state |-> s, data |-> arg]>>

Queued(id) == {k \in 1..Len(jobs) : jobs[k].id = id}

\* C28: of each accepted promise, no settlement transition is applied while
\* it is unsettled; once it is settled, one reaction is due or has run, never
\* two, and it is the call of success for a fulfilled promise and of failure
\* for a rejected one. Every settlement transition is the reaction of one
\* accepted promise, run once.
C28_OneSettlementPerPromise ==
  /\ [](\A id \in 1..Len(promises) :
          /\ promises[id].status = "unsettled" =>
               (promises[id].delivered = 0 /\ Queued(id) = {})
          /\ promises[id].status # "unsettled" =>
               promises[id].delivered + Cardinality(Queued(id)) = 1
          /\ \A k \in Queued(id) : jobs[k].status = promises[id].status)
  /\ [](lastOp.op = "settlement" =>
          /\ promises[lastOp.id].delivered = 1
          /\ promises[lastOp.id].status = "fulfilled" =>
               (HookCount("didBecomeSuccess") = 1 /\ HookCount("didBecomeFailure") = 0)
          /\ promises[lastOp.id].status = "rejected" =>
               (HookCount("didBecomeFailure") = 1 /\ HookCount("didBecomeSuccess") = 0))
  /\ [][\A id \in 1..Len(promises) :
          promises'[id].delivered # promises[id].delivered =>
            /\ promises[id].delivered = 0
            /\ promises'[id].delivered = 1
            /\ promises[id].status # "unsettled"
            /\ lastOp'.op = "settlement"
            /\ lastOp'.id = id]_vars

\* Two accepted promises, one fulfilled and one rejected, have each run
\* their reaction once and nothing is due.
C28_Witness ==
  /\ Len(promises) = 2
  /\ promises[1].status = "fulfilled"
  /\ promises[2].status = "rejected"
  /\ promises[1].delivered = 1
  /\ promises[2].delivered = 1
  /\ jobs = <<>>

\* C29: accepts that overlap are not cancelled. The reaction of every
\* settled promise runs, in the order in which the reactions became due
\* (the settlement order), and sets the holder to that promise's outcome
\* whether or not a later promise has been accepted or has already been
\* applied; so the holder shows the outcome of the promise whose reaction
\* ran last, not of the promise accepted last.
C29_OverlappingAcceptsAllApply ==
  /\ [](lastOp.op = "settlement" =>
          /\ data = lastOp.arg
          /\ state = (IF promises[lastOp.id].status = "fulfilled" THEN "success"
                      ELSE "failure"))
  /\ [][(jobs # <<>> /\ jobs' = Tail(jobs)) =>
          LET job == Head(jobs)
          IN  /\ promises'[job.id].delivered = promises[job.id].delivered + 1
              /\ lastOp'.op = "settlement"
              /\ lastOp'.id = job.id
              /\ data' = job.outcome
              /\ state' = (IF job.status = "fulfilled" THEN "success" ELSE "failure")]_vars
  /\ [][Len(jobs') > Len(jobs) =>
          (Len(jobs') = Len(jobs) + 1 /\ SubSeq(jobs', 1, Len(jobs)) = jobs)]_vars

\* p1 was accepted, then p2; p2 fulfilled and its reaction ran; then p1
\* rejected and its reaction ran: the holder is failure with p1's reason.
C29_Witness ==
  /\ Len(promises) = 2
  /\ promises[1].status = "rejected"
  /\ promises[2].status = "fulfilled"
  /\ promises[2].delivered = 1
  /\ lastOp.op = "settlement"
  /\ lastOp.id = 1
  /\ lastOp.preState \in {"success", "pending", "reloading"}
  /\ state = "failure"
  /\ data \in Errors

\* ------------------------------------------------- properties, atomicity
\* A state and a payload that belong together: a value with the success
\* case, an error with the failure case, nothing with the pending case.
Coherent(k, s, d) ==
  CASE CaseOf(k, s) = "success" -> d \in Values
    [] CaseOf(k, s) = "failure" -> d \in Errors
    [] CaseOf(k, s) = "pending" -> d = Undefined

\* C30: a transition of a primary holder (success, failure, pending) is seen
\* by its observers as one update. Every callback a derived holder invoked
\* during the most recent call was the callback of the source's new case and
\* received the source's new payload; where it mirrors, it shows the new
\* state with the new payload; an aggregate over the holder ran at most once
\* for the call, raised no internal error, and took the new payload with the
\* new state.
C30_TransitionsObservedWhole ==
  /\ Coherent(kind, state, data)
  /\ Attached =>
       /\ \A k \in 1..Len(derived.calls) :
            LET call == derived.calls[k]
            IN  /\ call.name = CurrentCase
                /\ call.name \in {"success", "failure"} => call.args[1] = data
                /\ call.name = "success" => call.args[1] \in Values
                /\ call.name = "failure" => call.args[1] \in Errors
       /\ CurrentCallback = NoCallback =>
            (derived.state = state /\ derived.data = data)
  /\ Aggregated =>
       /\ aggregate.runs <= 1
       /\ aggregate.thrown = NoThrow
       /\ aggregate.result.state = state
       /\ state = "failure" => aggregate.result.data = data
       /\ state = "pending" => aggregate.result.data = Undefined
       /\ state = "success" =>
            aggregate.result.data = (IF aggregate.values.isArray THEN JsArray(<<data>>)
                                     ELSE JsObject(<<[key |-> "k1", value |-> data]>>))
       /\ \A k \in 1..Len(aggregate.result.hooks) :
            aggregate.result.hooks[k].data = aggregate.result.data

\* success(v) on a Failable that was failure: the derived holder and the
\* aggregate each ran once and saw success with v.
C30_Witness ==
  /\ kind = "Failable"
  /\ lastOp.op = "success"
  /\ lastOp.preState = "failure"
  /\ derived.kind = "DerivedFailable"
  /\ derived.runs = 1
  /\ derived.calls = <<[name |-> "success", args |-> <<data>>]>>
  /\ Aggregated
  /\ aggregate.runs = 1
  /\ aggregate.result.data = JsArray(<<data>>)

\* ------------------------------------------- properties, chained derivations
\* What the derive protocol prescribes for a three-state or six-state source
\* in state s with payload d: the source's state and payload
\* when the options have no callback for the case, otherwise the
\* success-equivalent state with what the callback returned or the
\* failure-equivalent state with what it threw.
Protocol(sixState, options, s, d) ==
  LET case == IF sixState THEN CaseOf("Loadable", s) ELSE s
      busy == sixState /\ s \in BusyStates
      args == IF ~sixState THEN <<d>>
              ELSE IF case = "pending" THEN <<Bool(busy)>>
              ELSE <<d, Bool(busy)>>
      f == options[case]
  IN  IF f = NoCallback THEN [state |-> s, data |-> d]
      ELSE IF Throws(f, args)
        THEN [state |-> IF busy THEN "retrying" ELSE "failure", data |-> Thrown(case, args)]
        ELSE [state |-> IF busy THEN "reloading" ELSE "success", data |-> Returned(case, args)]

\* C31: with d1 derived from the source and d2 derived from d1, once
\* constructed and after every call on the source, d1 shows the protocol
\* result for the source's current state and payload and d2 the protocol
\* result for d1's current state and payload, so d2 never reflects an older
\* state of the source.
C31_ChainFollowsSource ==
  /\ Attached => Shown(derived) = Protocol(kind = "Loadable", derived.options, state, data)
  /\ chained.kind # "none" =>
       /\ Attached
       /\ chained.kind = derived.kind
       /\ Shown(chained) =
            Protocol(kind = "Loadable", chained.options, derived.state, derived.data)
       /\ Shown(chained) =
            LET first == Protocol(kind = "Loadable", derived.options, state, data)
            IN  Protocol(kind = "Loadable", chained.options, first.state, first.data)

\* A failure call on a source that was success: d1, which rescues failures,
\* ran its callback on the new error, and d2, which maps successes, ran its
\* callback on what d1's callback returned.
C31_Witness ==
  /\ kind = "Failable"
  /\ lastOp.op = "failure"
  /\ lastOp.preState = "success"
  /\ derived.options.failure = "returns"
  /\ derived.runs = 1
  /\ derived.data = Returned("failure", <<data>>)
  /\ chained.options.success = "returns"
  /\ chained.runs = 1
  /\ chained.state = "success"
  /\ chained.data = Returned("success", <<Returned("failure", <<data>>)>>)

\* ------------------------------------------- properties, stateful callbacks
\* C32: with a callback that returns and throws in turn, after each call on
\* the source that made the derived holder recompute, the holder is in the
\* success-equivalent state with the returned value when the callback
\* returned in that recomputation, and in the failure-equivalent state with
\* the thrown value when it threw, whatever it was before; a callback that
\* returned in one recomputation throws in its next one and the other way
\* round, and the holder follows.
C32_DerivedFollowsAlternation ==
  /\ []((Attached /\ derived.runs = 1 /\ derived.calls # <<>>) =>
          LET call == derived.calls[1]
              f == derived.options[call.name]
          IN  /\ Len(derived.calls) = 1
              /\ f = "throwsThenReturns" =>
                   (derived.state \in ValueStates /\ derived.data = Returned(call.name, call.args))
              /\ f = "returnsThenThrows" =>
                   (derived.state \in ErrorStates /\ derived.data = Thrown(call.name, call.args)))
  /\ [][(Attached /\ derived'.calls # <<>>) =>
          LET name == derived'.calls[1].name
              before == derived.options[name]
          IN  /\ before \in AlternatingBehaviours => derived'.options[name] # before
              /\ before = "returnsThenThrows" => derived'.state \in ValueStates
              /\ before = "throwsThenReturns" => derived'.state \in ErrorStates]_vars

\* The success callback threw for one value, leaving the derived holder a
\* failure, and returned for the next value: the holder is a success again.
C32_Witness ==
  /\ derived.kind = "DerivedFailable"
  /\ lastOp.op = "success"
  /\ lastOp.preState = "success"
  /\ seen.derived.state = "failure"
  /\ derived.options.success = "throwsThenReturns"
  /\ derived.runs = 1
  /\ derived.state = "success"
  /\ derived.data = Returned("success", <<data>>)

\* ---------------------------------------------- properties, shared sources
\* C33: constructing a derived holder or an aggregate leaves the source's
\* state, payload and hooks as they are, and after a call on the source its
\* observers have recomputed while the source holds what the call set; two
\* holders derived from one source each show the protocol result of their
\* own options for the source, so where the callback of one threw, the
\* other shows what its own callback returned or what it mirrors.
C33_ObserversLeaveSourceAlone ==
  /\ [][(derived'.kind # derived.kind \/ sibling'.kind # sibling.kind
           \/ aggregate'.created # aggregate.created) =>
          (kind' = kind /\ state' = state /\ data' = data /\ hooks' = hooks)]_vars
  /\ []((Attached \/ sibling.kind # "none" \/ aggregate.created) =>
          /\ lastOp.op = "success" => (state = "success" /\ data = lastOp.arg)
          /\ lastOp.op = "failure" => (state = "failure" /\ data = lastOp.arg)
          /\ (lastOp.op = "pending" /\ kind = "Failable") =>
               (state = "pending" /\ data = Undefined)
          /\ (lastOp.op \in {"pending", "loading"} /\ kind = "Loadable") =>
               (state = withFlight(lastOp.preState, Flight_busy) /\ data = lastOp.preData))
  /\ [](aggregate.created => Aggregated)
  /\ [](Attached => Shown(derived) = Protocol(kind = "Loadable", derived.options, state, data))
  /\ [](sibling.kind # "none" =>
          Shown(sibling) = Protocol(kind = "Loadable", sibling.options, state, data))

\* A success call on a source with two derived holders and an aggregate:
\* the success callback of one threw, the other shows what its own returned,
\* the aggregate collected the value, and the source holds the value.
C33_Witness ==
  /\ kind = "Failable"
  /\ lastOp.op = "success"
  /\ lastOp.preState = "failure"
  /\ state = "success"
  /\ data = lastOp.arg
  /\ derived.options.success = "throws"
  /\ derived.runs = 1
  /\ derived.state = "failure"
  /\ sibling.options.success = "returns"
  /\ sibling.runs = 1
  /\ sibling.state = "success"
  /\ sibling.data = Returned("success", <<data>>)
  /\ Aggregated
  /\ aggregate.runs = 1
  /\ aggregate.result.state = "success"

\* ------------------------------------ properties, Failable.all consistency
\* C34: whatever transitions the Failable inputs of an aggregate go through,
\* no run of its autorun raises one of the two internal errors: failureOr of
\* an input that is failure gives that input's error, not the sentinel, and
\* when no input is failure or pending successOr of every input gives that
\* input's value, not the sentinel.
C34_AllNeverRaises ==
  aggregate.created =>
    /\ aggregate.thrown = NoThrow
    /\ \A i \in FailedInputs :
         /\ failureOr(Inputs[i], Never).value # Never
         /\ failureOr(Inputs[i], Never).value = Inputs[i].data
         /\ Inputs[i].data \in InputErrors
    /\ (FailedInputs = {} /\ PendingInputs = {}) =>
         \A i \in 1..Len(Inputs) :
           /\ successOr(Inputs[i], Never).value # Never
           /\ successOr(Inputs[i], Never).value = Inputs[i].data
           /\ Inputs[i].data \in Values

\* The second of three inputs has just failed while the first is pending
\* and the third a success: the autorun ran, found it by the failure scan
\* and took its error without raising.
C34_Witness ==
  /\ aggregate.created
  /\ Len(Inputs) = 3
  /\ aggregate.last = 2
  /\ aggregate.runs = 1
  /\ Inputs[1].state = "pending"
  /\ Inputs[2].state = "failure"
  /\ Inputs[3].state = "success"
  /\ aggregate.thrown = NoThrow
  /\ aggregate.result.state = "failure"
  /\ aggregate.result.data = failureOr(Inputs[2], Never).value

\* ------------------------------------------- properties, one trait at a time
\* C35: for each of the six states s and both flights f, withFlight(s, f) is
\* a state with flight f and the availability of s; for each of the six
\* states s and the three availabilities a, withAvailability(s, a) is a
\* state with availability a and the flight of s; none of the calls throws.
C35_OneAxisOnly ==
  /\ returned.op = "withFlight" =>
       LET s == returned.args[1].str
           f == returned.args[2].num
           result == returned.value.str
       IN  /\ ~returned.threw
           /\ result \in LoadableStates
           /\ result \in BusyStates <=> f = Flight_busy
           /\ result \in IdleStates <=> f = Flight_idle
           /\ SameAvailability(result, s)
           /\ flightOf(Str(result)) = f
           /\ availabilityOf(Str(result)) = availabilityOf(Str(s))
  /\ returned.op = "withAvailability" =>
       LET s == returned.args[1].str
           a == returned.args[2].num
           result == returned.value.str
       IN  /\ ~returned.threw
           /\ result \in LoadableStates
           /\ result \in NoneStates <=> a = Availability_none
           /\ result \in ValueStates <=> a = Availability_value
           /\ result \in ErrorStates <=> a = Availability_error
           /\ result \in BusyStates <=> s \in BusyStates
           /\ availabilityOf(Str(result)) = a
           /\ flightOf(Str(result)) = flightOf(Str(s))

\* withAvailability(pending, error) gave retrying: the availability is
\* error and the flight still busy.
C35_Witness ==
  /\ returned.op = "withAvailability"
  /\ returned.args = <<Str("pending"), Num(Availability_error)>>
  /\ ~returned.threw
  /\ returned.value = Str("retrying")

\* ------------------------------------ properties, direct calls and promises
DirectCalls == {"success", "failure", "pending", "loading"}

\* C36: a direct success, failure, pending or loading call leaves the
\* accepted promise and its reaction as they are: a reaction that is due
\* stays due, and the reaction of a promise that settles after the call
\* becomes due. Once the promise has settled, its reaction eventually runs,
\* and when it has run the holder has the state and payload of the
\* promise's outcome, whatever a direct call had set.
C36_DirectCallsDoNotCancel ==
  /\ [][(lastOp'.op \in DirectCalls /\ promises' = promises) => jobs' = jobs]_vars
  /\ [][\A id \in 1..Len(promises) :
          promises'[id] # promises[id] =>
            \/ /\ promises[id].status = "unsettled"
               /\ promises'[id].status # "unsettled"
               /\ Len(jobs') = Len(jobs) + 1
               /\ jobs'[Len(jobs')].id = id
            \/ /\ lastOp'.op = "settlement"
               /\ lastOp'.id = id
               /\ promises'[id].delivered = 1]_vars
  /\ [](lastOp.op \in DirectCalls =>
          \A id \in 1..Len(promises) :
            (promises[id].status # "unsettled" /\ promises[id].delivered = 0) =>
              Queued(id) # {})
  /\ []((lastOp.op = "settlement" /\ lastOp.preState \in {"success", "failure"}) =>
          /\ data = lastOp.arg
          /\ state = (IF promises[lastOp.id].status = "fulfilled" THEN "success"
                      ELSE "failure"))
  /\ \A outcome \in Settled :
       SettledWith(outcome) ~> (lastOp.op = "settlement" /\ Shows(outcome))

\* A Failable accepted a promise and was then set to success by a direct
\* call; the promise rejected afterwards and the holder is a failure with
\* the promise's reason.
C36_Witness ==
  /\ kind = "Failable"
  /\ Len(promises) = 1
  /\ promises[1].status = "rejected"
  /\ promises[1].delivered = 1
  /\ lastOp.op = "settlement"
  /\ lastOp.preState = "success"
  /\ lastOp.preData \in Values
  /\ state = "failure"
  /\ data \in Errors

\* ------------------------------------------- properties, pending callbacks
\* C37: a derived holder whose options have a pending callback is never in
\* a state without payload, from its construction on and whatever calls its
\* source goes through: a DerivedFailable is success or failure, never
\* pending, and a DerivedLoadable is success, reloading, failure or
\* retrying, never empty or pending; while the source has no payload it
\* shows what the pending callback returned or threw, with the source's
\* flight.
C37_PendingCallbackHidesPending ==
  (Attached /\ derived.options.pending # NoCallback) =>
    /\ derived.state \notin NoneStates
    /\ derived.data # Undefined
    /\ derived.kind = "DerivedFailable" => derived.state \in {"success", "failure"}
    /\ derived.kind = "DerivedLoadable" => derived.state \in ValueStates \cup ErrorStates
    /\ CurrentCase = "pending" =>
         /\ derived.data.kind \in {"returned", "thrown"}
         /\ derived.data.by = "pending"
         /\ derived.data.kind = "returned" <=> derived.state \in ValueStates
         /\ kind = "Loadable" => (derived.state \in BusyStates <=> state \in BusyStates)

\* A Loadable that has started its first load is still without payload:
\* the holder derived with a pending callback alone shows reloading with
\* what the callback returned.
C37_Witness ==
  /\ derived.kind = "DerivedLoadable"
  /\ derived.options = [success |-> NoCallback, failure |-> NoCallback, pending |-> "returns"]
  /\ lastOp.op \in {"loading", "pending", "accept"}
  /\ lastOp.preState = "empty"
  /\ state = "pending"
  /\ derived.runs = 1
  /\ derived.state = "reloading"
  /\ derived.data = Returned("pending", <<Bool(TRUE)>>)

\* --------------------------------------- properties, hooks and observers
\* What an aggregate over one Failable in state s with payload d shows.
Collected(isArray, s, d) ==
  IF s = "success"
    THEN [state |-> s,
          data |-> IF isArray THEN JsArray(<<d>>) ELSE JsObject(<<[key |-> "k1", value |-> d]>>)]
    ELSE [state |-> s, data |-> d]

\* C38: when a hook of the primary holder runs (didBecomeSuccess,
\* didBecomeFailure, didBecomePending, didBecomeLoading), the holder's state
\* and payload are already the new ones, while a holder derived from it and
\* an aggregate over it still show what they showed for the state and
\* payload before the call; when the call has returned they show the
\* result for the new ones.
C38_HooksRunBeforeObservers ==
  hooks # <<>> =>
    /\ \A k \in 1..Len(hooks) : hooks[k].state = state /\ hooks[k].data = data
    /\ (Attached /\ seen.derived.state # "") =>
         /\ seen.derived =
              Protocol(kind = "Loadable", derived.options, lastOp.preState, lastOp.preData)
         /\ Shown(derived) = Protocol(kind = "Loadable", derived.options, state, data)
    /\ (Aggregated /\ aggregate.last = 1) =>
         /\ seen.aggregate =
              Collected(aggregate.values.isArray, lastOp.preState, lastOp.preData)
         /\ Shown(aggregate.result) = Collected(aggregate.values.isArray, state, data)

\* didBecomeSuccess ran on a Failable that was pending: it found the new
\* value in the holder, and the derived holder and the aggregate still
\* pending; both show the success now.
C38_Witness ==
  /\ kind = "Failable"
  /\ lastOp.op = "success"
  /\ lastOp.preState = "pending"
  /\ hooks = OwnHook("didBecomeSuccess", "success", data)
  /\ derived.options.success = "returns"
  /\ derived.options.pending = NoCallback
  /\ seen.derived = [state |-> "pending", data |-> Undefined]
  /\ derived.state = "success"
  /\ Aggregated
  /\ aggregate.last = 1
  /\ seen.aggregate = [state |-> "pending", data |-> Undefined]
  /\ aggregate.result.state = "success"

\* ----------------------------------------------- properties, recomputations
\* The arguments the derive callback of the source's case receives.
CallbackArgs(k, s, d) ==
  IF k = "Failable" THEN <<d>>
  ELSE IF CaseOf(k, s) = "pending" THEN <<Bool(s \in BusyStates)>>
  ELSE <<d, Bool(s \in BusyStates)>>

\* The derived holder after the first of the two runs of its construction.
AfterOneRun ==
  transform(IF kind = "Failable" THEN NewDerivedFailable(derived'.options)
                                 ELSE NewDerivedLoadable(derived'.options), this)

\* The number of runs and the invocations the claim gives a construction
\* and a later call on the source.
RunsAsCounted ==
  /\ (~Attached /\ derived'.kind # "none") =>
       LET f == derived'.options[CurrentCase]
           call == [name |-> CurrentCase, args |-> CallbackArgs(kind, state, data)]
       IN  /\ derived'.runs = 2
           /\ derived'.calls = (IF f = NoCallback THEN <<>> ELSE <<call, call>>)
  /\ (Attached /\ (state' # state \/ data' # data)) =>
       LET f == derived.options[CaseOf(kind, state')]
           call == [name |-> CaseOf(kind, state'), args |-> CallbackArgs(kind, state', data')]
       IN  /\ derived'.runs = 1
           /\ derived'.calls = (IF f = NoCallback THEN <<>> ELSE <<call>>)


\* C39: constructing a derived holder runs transform twice, so the callback
\* of the source's current case is invoked twice with the same arguments,
\* and the holder ends in the state it had after one run; each later call
\* that changes the source's state or payload (a direct call, accept, a
\* promise's reaction) runs transform once and invokes the callback of the
\* new case once.
C39_ConstructionRunsTwice ==
  [][/\ RunsAsCounted
     /\ (~Attached /\ derived'.kind # "none") =>
          /\ AfterOneRun.runs = 1
          /\ Shown(derived') = Shown(AfterOneRun)
          /\ Shown(derived') =
               Protocol(kind = "Loadable", derived'.options, state, data)]_vars

\* A holder was derived from a Loadable that is reloading, by a success
\* callback: the callback ran twice on the value and the flag true, and the
\* holder is reloading with what it returned.
C39_Witness ==
  /\ kind = "Loadable"
  /\ state = "reloading"
  /\ derived.options.success = "returns"
  /\ derived.runs = 2
  /\ derived.calls = <<[name |-> "success", args |-> <<data, Bool(TRUE)>>],
                       [name |-> "success", args |-> <<data, Bool(TRUE)>>]>>
  /\ derived.state = "reloading"
  /\ derived.data = Returned("success", <<data, Bool(TRUE)>>)

=============================================================================
